---- MODULE Spec2Model ----
(***************************************************************************)
(* A model of the PEP 750 examples: the Template / Interpolation types,    *)
(* the t() shim, the f() renderer, the asynchronous renderers and the      *)
(* legacy format-string parser.                                            *)
(*                                                                         *)
(* Python strings are sequences of one-character strings, so that          *)
(* concatenation, slicing and scanning are what the code does to them.     *)
(***************************************************************************)
EXTENDS Integers, Sequences, FiniteSets, TLC

VARIABLES
    call_op,    \* the operation that has run ("none" before any has)
    call_in,    \* the arguments of the call
    call_out,   \* what the call returned or raised
    a_pc,       \* aformat / async_f: position of the coroutine
    a_i,        \* aformat / async_f: index (1-based) of the current part
    a_parts,    \* aformat / async_f: the local list `parts`
    a_log,      \* aformat / async_f: invocations and completions, in order
    a_out,      \* aformat / async_f: what the render returned or raised
    ticks,      \* steps of other tasks run by the event loop
    self,       \* the attributes of the object made by a constructor call
    hist        \* the method calls made on it, with what each returned or raised

vars == <<call_op, call_in, call_out, a_pc, a_i, a_parts, a_log, a_out, ticks, self, hist>>
callVars == <<call_op, call_in, call_out>>
asyncVars == <<a_pc, a_i, a_parts, a_log, a_out, ticks>>
objVars == <<self, hist>>

(***************************************************************************)
(* Bounds of the model.                                                    *)
(***************************************************************************)
MaxParts == 3      \* longest argument list given to Template(), t(), f()
MaxFmtLen == 5     \* longest legacy format string
MaxArgs == 2       \* most positional arguments given to make_template
MaxTicks == 1      \* steps other tasks take while a render is suspended
MaxCalls == 2      \* most method calls made on one object

(***************************************************************************)
(* Strings and sequences.                                                  *)
(***************************************************************************)
SeqsUpTo(S, n) == UNION {[1..k -> S] : k \in 0..n}

RECURSIVE Join(_)
\* "".join(parts)
Join(parts) == IF parts = <<>> THEN <<>> ELSE Head(parts) \o Join(Tail(parts))

RECURSIVE Repeat(_, _)
Repeat(c, n) == IF n <= 0 THEN <<>> ELSE <<c>> \o Repeat(c, n - 1)

DigitChars == <<"0", "1", "2", "3", "4", "5", "6", "7", "8", "9">>
IsDigit(c) == \E d \in 1..10 : DigitChars[d] = c
DigitVal(c) == (CHOOSE d \in 1..10 : DigitChars[d] = c) - 1

\* str.isdigit(): non-empty and every character a digit
isdigit(s) == s # <<>> /\ \A i \in 1..Len(s) : IsDigit(s[i])

RECURSIVE ParseNat(_, _)
\* int(s) for a string of digits, read left to right
ParseNat(s, acc) ==
    IF s = <<>> THEN acc ELSE ParseNat(Tail(s), 10 * acc + DigitVal(Head(s)))

RECURSIVE NatToStr(_)
NatToStr(n) ==
    IF n < 10 THEN <<DigitChars[n + 1]>>
    ELSE NatToStr(n \div 10) \o <<DigitChars[(n % 10) + 1]>>

startswith(s, p) == Len(s) >= Len(p) /\ SubSeq(s, 1, Len(p)) = p
endswith(s, p) == Len(s) >= Len(p) /\ SubSeq(s, Len(s) - Len(p) + 1, Len(s)) = p

(***************************************************************************)
(* Values. An int, a str, or a zero-argument callable (a plain function or *)
(* a coroutine function) that returns `ret` or raises.                     *)
(***************************************************************************)
IntV(n) == [k |-> "int", v |-> n]
StrV(s) == [k |-> "str", v |-> s]
FnV(name, ret, raises) == [k |-> "fn", name |-> name, ret |-> ret, raises |-> raises]
CoroV(name, ret, raises) == [k |-> "coro", name |-> name, ret |-> ret, raises |-> raises]

TypeName(value) ==
    CASE value.k = "int" -> "int"
      [] value.k = "str" -> "str"
      [] OTHER -> "function"

\* str(value)
Str(value) ==
    CASE value.k = "int" -> NatToStr(value.v)
      [] value.k = "str" -> value.v
      [] OTHER -> <<"<", "f", "n", " ">> \o value.name \o <<">">>

IsAscii(c) == c \notin {"é"}

\* repr() of one character of a str; the strings of the model hold no quote,
\* backslash or control character
ReprChar(c) == <<c>>

\* ascii() of one character: a non-ASCII character becomes its \x escape
AsciiChar(c) == IF IsAscii(c) THEN <<c>> ELSE <<"\\", "x", "e", "9">>

RECURSIVE MapChars(_, _)
MapChars(s, ascii_only) ==
    IF s = <<>> THEN <<>>
    ELSE (IF ascii_only THEN AsciiChar(Head(s)) ELSE ReprChar(Head(s)))
         \o MapChars(Tail(s), ascii_only)

\* repr(value)
Repr(value) ==
    IF value.k = "str" THEN <<"'">> \o MapChars(value.v, FALSE) \o <<"'">>
    ELSE Str(value)

\* ascii(value)
Ascii(value) ==
    IF value.k = "str" THEN <<"'">> \o MapChars(value.v, TRUE) \o <<"'">>
    ELSE Str(value)

(***************************************************************************)
(* Results of a call: a returned value, or a raised exception.             *)
(***************************************************************************)
NoErr == [exc |-> "none", msg |-> <<>>]
Returned(v) == [status |-> "ok", val |-> v, err |-> NoErr]
Raised(exc, msg) == [status |-> "raised", val |-> <<>>, err |-> [exc |-> exc, msg |-> msg]]
Reraise(r) == [status |-> "raised", val |-> <<>>, err |-> r.err]

(***************************************************************************)
(* The built-in format(value, format_spec), for the values and the format  *)
(* specs of the model: [0][width][type]. A str takes type s (padded on the *)
(* right), an int takes type d (padded on the left); anything else is the  *)
(* ValueError of the format mini-language. Fill / align / sign / precision *)
(* characters occur in no format spec of the model.                        *)
(***************************************************************************)
RECURSIVE DigitPrefixLen(_)
DigitPrefixLen(s) ==
    IF s # <<>> /\ IsDigit(Head(s)) THEN 1 + DigitPrefixLen(Tail(s)) ELSE 0

FormatError(value, spec, typ) ==
    IF Len(typ) = 1
    THEN Raised("ValueError", <<"Unknown format code", typ, TypeName(value)>>)
    ELSE Raised("ValueError", <<"Invalid format specifier", spec, TypeName(value)>>)

Format(value, spec) ==
    LET zero == spec # <<>> /\ Head(spec) = "0"
        s1 == IF zero THEN Tail(spec) ELSE spec
        n == DigitPrefixLen(s1)
        width == ParseNat(SubSeq(s1, 1, n), 0)
        typ == SubSeq(s1, n + 1, Len(s1))
        fill == IF zero THEN "0" ELSE " "
        text == Str(value)
        pad == Repeat(fill, width - Len(text))
    IN  CASE value.k = "int" ->
                IF typ \in {<<>>, <<"d">>} THEN Returned(pad \o text)
                ELSE FormatError(value, spec, typ)
          [] value.k = "str" ->
                IF typ \in {<<>>, <<"s">>} THEN Returned(text \o pad)
                ELSE FormatError(value, spec, typ)
          [] OTHER ->
                IF spec = <<>> THEN Returned(text)
                ELSE Raised("TypeError",
                            <<"unsupported format string passed to __format__",
                              spec, TypeName(value)>>)

(***************************************************************************)
(* src/pep/__init__.py                                                     *)
(***************************************************************************)
\* A literal part of a template: a Python str
Lit(s) == [kind |-> "str", s |-> s]
isinstance_str(arg) == arg.kind = "str"

\* class Interpolation; conv is "a", "r", "s" or "None"
Interpolation(value, expr, conv, format_spec) ==
    [kind |-> "Interpolation", value |-> value, expr |-> expr,
     conv |-> conv, format_spec |-> format_spec]

\* class Template: __init__ stores the arguments it is given
Template(args) == [kind |-> "Template", args |-> args]

\* An optional attribute of the old-style interpolation
NoneV == [some |-> FALSE, v |-> <<>>]
Some(x) == [some |-> TRUE, v |-> x]

\* typing.Interpolation of the older implementation, as t() reads it
OldVersionOfInterpolation(value, expr, conv, format_spec) ==
    [kind |-> "OldInterpolation", getvalue |-> value, expr |-> expr,
     conv |-> conv, format_spec |-> format_spec]

\* The conv / format_spec workaround of t() for one old-style interpolation
TConvert(arg) ==
    IF arg.conv.some
    THEN IF arg.conv.v \in {<<"a">>, <<"r">>, <<"s">>}
         THEN Interpolation(arg.getvalue, arg.expr, arg.conv.v[1],
                            IF arg.format_spec.some THEN arg.format_spec.v ELSE <<>>)
         ELSE Interpolation(arg.getvalue, arg.expr, "None", arg.conv.v)
    ELSE Interpolation(arg.getvalue, arg.expr, "None", <<>>)

RECURSIVE TLoop(_, _, _, _)
\* the for loop of t(): (eo_args, last_was_str) after the arguments from i on
TLoop(args, i, eo_args, last_was_str) ==
    IF i > Len(args) THEN [eo_args |-> eo_args, last_was_str |-> last_was_str]
    ELSE IF args[i].kind = "OldInterpolation"
         THEN TLoop(args, i + 1,
                    (IF ~last_was_str THEN Append(eo_args, Lit(<<>>)) ELSE eo_args)
                        \o <<TConvert(args[i])>>,
                    FALSE)
         ELSE TLoop(args, i + 1, Append(eo_args, args[i]), TRUE)

t(args) ==
    LET after == TLoop(args, 1, <<>>, FALSE)
        eo_args == IF ~after.last_was_str
                   THEN Append(after.eo_args, Lit(<<>>)) ELSE after.eo_args
    IN  IF ~(Len(eo_args) >= 1) THEN Raised("AssertionError", <<"len(eo_args) >= 1">>)
        ELSE IF ~(Len(eo_args) % 2 = 1)
             THEN Raised("AssertionError", <<"len(eo_args) % 2 == 1">>)
             ELSE Returned(Template(eo_args))

(***************************************************************************)
(* src/pep/fstring.py                                                      *)
(***************************************************************************)
\* convert() with the 'a' conversion taken for repr()
convert_a_as_repr(value, conv) ==
    IF conv = "a" THEN StrV(Repr(value))
    ELSE IF conv = "r" THEN StrV(Repr(value))
    ELSE IF conv = "s" THEN StrV(Str(value))
    ELSE value

convert(value, conv) ==
    IF conv = "a" THEN StrV(Ascii(value))
    ELSE IF conv = "r" THEN StrV(Repr(value))
    ELSE IF conv = "s" THEN StrV(Str(value))
    ELSE value

RECURSIVE FLoop_skip_failed(_, _, _, _)
\* the loop of f() with a formatting error swallowed and the part left out
FLoop_skip_failed(args, i, parts, formatted) ==
    IF i > Len(args)
    THEN [status |-> "ok", val |-> Join(parts), err |-> NoErr, formatted |-> formatted]
    ELSE IF isinstance_str(args[i])
         THEN FLoop_skip_failed(args, i + 1, Append(parts, args[i].s), formatted)
         ELSE LET value == convert(args[i].value, args[i].conv)
                  r == Format(value, args[i].format_spec)
              IN  FLoop_skip_failed(args, i + 1,
                                    IF r.status = "raised" THEN parts ELSE Append(parts, r.val),
                                    Append(formatted, i))

RECURSIVE FLoop(_, _, _, _)
\* the for loop of f() from part i on; `formatted` lists the parts format()
\* has been called on
FLoop(args, i, parts, formatted) ==
    IF i > Len(args)
    THEN [status |-> "ok", val |-> Join(parts), err |-> NoErr, formatted |-> formatted]
    ELSE IF isinstance_str(args[i])
         THEN FLoop(args, i + 1, Append(parts, args[i].s), formatted)
         ELSE LET value == convert(args[i].value, args[i].conv)
                  r == Format(value, args[i].format_spec)
              IN  IF r.status = "raised"
                  THEN [status |-> "raised", val |-> <<>>, err |-> r.err,
                        formatted |-> Append(formatted, i)]
                  ELSE FLoop(args, i + 1, Append(parts, r.val), Append(formatted, i))

f(template) == FLoop(template.args, 1, <<>>, <<>>)

(***************************************************************************)
(* src/pep/aformat.py and src/pep/afstring.py                              *)
(*                                                                         *)
(* aformat() and async_f() are coroutines: each runs from one await to the *)
(* next in one step. Calling a plain function runs its body; calling a     *)
(* coroutine function only makes the coroutine object, whose body runs     *)
(* when it is awaited, and the render is suspended until it has finished.  *)
(***************************************************************************)
\* iscoroutinefunction() answering False for a coroutine function
iscoroutinefunction_never(value) == FALSE

\* inspect.iscoroutinefunction(value)
iscoroutinefunction(value) == value.k = "coro"

\* callable(value)
callable(value) == value.k \in {"fn", "coro"}

CoroutineObject(value) == [k |-> "coroutine", name |-> value.name]

\* value(): the result of a plain function, the coroutine object of a
\* coroutine function
Invoke(value) ==
    IF value.k = "coro" THEN Returned(CoroutineObject(value))
    ELSE IF value.raises THEN Raised("NameError", value.name)
    ELSE Returned(value.ret)

\* what awaiting the coroutine of a coroutine function ends with
Awaited(value) ==
    IF value.raises THEN Raised("NameError", value.name) ELSE Returned(value.ret)

\* the rest of the loop body with the conversion left out
AFormatPart_no_convert(arg, resolved) ==
    IF resolved.status = "raised" THEN Reraise(resolved)
    ELSE Format(resolved.val, arg.format_spec)

\* the rest of the loop body with a failed resolution formatted as ''
AFormatPart_swallow(arg, resolved) ==
    IF resolved.status = "raised" THEN Returned(<<>>)
    ELSE Format(convert(resolved.val, arg.conv), arg.format_spec)

\* the rest of the loop body once the value is resolved:
\* value = convert(value, conv); value = format(value, format_spec)
AFormatPart(arg, resolved) ==
    IF resolved.status = "raised" THEN Reraise(resolved)
    ELSE Format(convert(resolved.val, arg.conv), arg.format_spec)

\* parts.append(value), or the exception leaving the coroutine
AAppend(piece) ==
    IF piece.status = "raised"
    THEN /\ a_pc' = "raised"
         /\ a_out' = Reraise(piece)
         /\ UNCHANGED <<a_i, a_parts>>
    ELSE /\ a_pc' = "loop"
         /\ a_parts' = Append(a_parts, piece.val)
         /\ a_i' = a_i + 1
         /\ UNCHANGED a_out

\* one run of the coroutine from the top of the loop to its next await, to
\* the next part, or to its end
ALoopBody(args) ==
    IF a_i > Len(args)
    THEN /\ a_pc' = "done"
         /\ a_out' = Returned(Join(a_parts))
         /\ UNCHANGED <<a_i, a_parts, a_log>>
    ELSE LET arg == args[a_i] IN
         IF isinstance_str(arg)
         THEN /\ a_parts' = Append(a_parts, arg.s)
              /\ a_i' = a_i + 1
              /\ UNCHANGED <<a_pc, a_out, a_log>>
         ELSE IF iscoroutinefunction(arg.value)
              THEN /\ a_log' = Append(a_log, <<"call", a_i>>)
                   /\ a_pc' = "awaiting"
                   /\ UNCHANGED <<a_i, a_parts, a_out>>
              ELSE IF callable(arg.value)
                   THEN /\ a_log' = a_log \o
                               (IF arg.value.k = "coro"
                                THEN <<<<"call", a_i>>>>
                                ELSE <<<<"call", a_i>>, <<"finished", a_i>>>>)
                        /\ AAppend(AFormatPart(arg, Invoke(arg.value)))
                   ELSE /\ AAppend(AFormatPart(arg, Returned(arg.value)))
                        /\ UNCHANGED a_log

\* result = await aformat(template): the coroutine starts
ACall ==
    /\ a_pc = "idle"
    /\ call_op = "none"
    /\ call_op' = call_in.api
    /\ a_pc' = "loop"
    /\ a_i' = 1
    /\ UNCHANGED <<call_in, call_out, a_parts, a_log, a_out, ticks, objVars>>

\* aformat() runs on: for arg in template.args
AformatStep ==
    /\ a_pc = "loop"
    /\ call_op = "aformat"
    /\ ALoopBody(call_in.args.args)
    /\ UNCHANGED <<callVars, ticks, objVars>>

\* async_f() runs on: for item in template
AsyncFStep ==
    /\ a_pc = "loop"
    /\ call_op = "async_f"
    /\ ALoopBody(call_in.args.args)
    /\ UNCHANGED <<callVars, ticks, objVars>>

\* the awaited coroutine finishes and the render resumes after its await
AwaitDone ==
    /\ a_pc = "awaiting"
    /\ a_log' = Append(a_log, <<"finished", a_i>>)
    /\ AAppend(AFormatPart(call_in.args.args[a_i], Awaited(call_in.args.args[a_i].value)))
    /\ UNCHANGED <<callVars, ticks, objVars>>

\* the event loop runs another task while the render is suspended
OtherTask ==
    /\ a_pc = "awaiting"
    /\ ticks < MaxTicks
    /\ ticks' = ticks + 1
    /\ UNCHANGED <<callVars, a_pc, a_i, a_parts, a_log, a_out, objVars>>

(***************************************************************************)
(* src/pep/lazy.py                                                         *)
(***************************************************************************)
\* the selector test with every interpolation taken for selected
Selected_always(item, selector) == TRUE

\* item.format_spec == selector
Selected(item, selector) == item.format_spec = selector

\* "".join(parts) for parts that need not be str: the TypeError of the first
\* part that is no str
RECURSIVE JoinValues(_, _, _)
JoinValues(parts, i, out) ==
    IF i > Len(parts) THEN Returned(out)
    ELSE IF parts[i].k # "str"
         THEN Raised("TypeError", <<"sequence item: expected str instance",
                                    NatToStr(i - 1), parts[i].k>>)
         ELSE JoinValues(parts, i + 1, out \o parts[i].v)

\* the outcome of format_some with the parts whose value was invoked
WithInvoked(out, invoked) ==
    [status |-> out.status, val |-> out.val, err |-> out.err, invoked |-> invoked]

RECURSIVE SomeLoop(_, _, _, _, _, _)
RECURSIVE SomeValue(_, _, _, _, _, _, _)
\* the selected item i once its value is resolved: convert and append
SomeValue(selector, items, ignored, i, parts, invoked, resolved) ==
    IF resolved.status = "raised" THEN WithInvoked(Reraise(resolved), invoked)
    ELSE SomeLoop(selector, items, ignored, i + 1,
                  Append(parts, convert(resolved.val, items[i].conv)), invoked)

\* the for loop of format_some from item i on, and the join after it
SomeLoop(selector, items, ignored, i, parts, invoked) ==
    IF i > Len(items) THEN WithInvoked(JoinValues(parts, 1, <<>>), invoked)
    ELSE IF isinstance_str(items[i])
    THEN SomeLoop(selector, items, ignored, i + 1, Append(parts, StrV(items[i].s)), invoked)
    ELSE IF Selected(items[i], selector)
    THEN IF callable(items[i].value)
         THEN SomeValue(selector, items, ignored, i, parts, Append(invoked, i),
                        Invoke(items[i].value))
         ELSE SomeValue(selector, items, ignored, i, parts, invoked,
                        Returned(items[i].value))
    ELSE SomeLoop(selector, items, ignored, i + 1, Append(parts, StrV(ignored)), invoked)

format_some(selector, template, ignored) ==
    SomeLoop(selector, template.args, ignored, 1, <<>>, <<>>)

(***************************************************************************)
(* src/pep/reuse.py: Binder                                                *)
(***************************************************************************)
RECURSIVE NonStringAt(_, _)
\* the first Interpolation of args from i on whose value is no str, 0 when
\* there is none
NonStringAt(args, i) ==
    IF i > Len(args) THEN 0
    ELSE IF ~isinstance_str(args[i]) /\ args[i].value.k # "str" THEN i
    ELSE NonStringAt(args, i + 1)

\* Binder.__init__(template)
BinderInit(template) ==
    IF NonStringAt(template.args, 1) # 0
    THEN Raised("ValueError",
                <<"Non-string interpolation: ",
                  Str(template.args[NonStringAt(template.args, 1)].value)>>)
    ELSE Returned([class |-> "Binder", template |-> template])

\* s[1:-1]
StripEnds(s) == SubSeq(s, 2, Len(s) - 1)

\* the expression of a bound interpolation, taken from the value bound
ExprOfBound_from_value(t_arg, value) == StripEnds(Repr(value))

\* expr = repr(t_arg.value)[1:-1]
ExprOfBound(t_arg, value) == StripEnds(Repr(t_arg.value))

RECURSIVE BindLoop(_, _, _, _)
\* the for loop of Binder.bind from argument i of self.template on
BindLoop(t_args, kwargs, i, args) ==
    IF i > Len(t_args) THEN Returned(Template(args))
    ELSE IF isinstance_str(t_args[i]) THEN BindLoop(t_args, kwargs, i + 1, Append(args, t_args[i]))
    ELSE IF t_args[i].value.v \notin DOMAIN kwargs THEN Raised("KeyError", <<t_args[i].value.v>>)
    ELSE BindLoop(t_args, kwargs, i + 1,
                  Append(args,
                         Interpolation(kwargs[t_args[i].value.v],
                                       ExprOfBound(t_args[i], kwargs[t_args[i].value.v]),
                                       t_args[i].conv, t_args[i].format_spec)))

\* Binder.bind(**kwargs)
bind(binder, kwargs) == BindLoop(binder.template.args, kwargs, 1, <<>>)

\* Formatter.__init__(template)
FormatterInit(template) ==
    IF NonStringAt(template.args, 1) # 0
    THEN Raised("ValueError",
                <<"Non-string interpolation: ",
                  Str(template.args[NonStringAt(template.args, 1)].value)>>)
    ELSE Returned([class |-> "Formatter", template |-> template])

RECURSIVE FormatLoop(_, _, _, _)
\* a turn of the loop of Formatter.format that leaves a part out when format() fails on it
FormatTurn_skip_failed(t_args, kwargs, i, parts, r) ==
    FormatLoop(t_args, kwargs, i + 1, IF r.status = "raised" THEN parts ELSE Append(parts, r.val))

\* the end of a turn of the loop of Formatter.format: r is what format() gave
FormatTurn(t_args, kwargs, i, parts, r) ==
    IF r.status = "raised" THEN Reraise(r)
    ELSE FormatLoop(t_args, kwargs, i + 1, Append(parts, r.val))

\* the for loop of Formatter.format from argument i of self.template on
FormatLoop(t_args, kwargs, i, parts) ==
    IF i > Len(t_args) THEN Returned(Join(parts))
    ELSE IF isinstance_str(t_args[i])
    THEN FormatLoop(t_args, kwargs, i + 1, Append(parts, t_args[i].s))
    ELSE IF t_args[i].value.v \notin DOMAIN kwargs THEN Raised("KeyError", <<t_args[i].value.v>>)
    ELSE FormatTurn(t_args, kwargs, i, parts,
                    Format(convert(kwargs[t_args[i].value.v], t_args[i].conv), t_args[i].format_spec))

\* Formatter.format(**kwargs)
format(formatter, kwargs) == FormatLoop(formatter.template.args, kwargs, 1, <<>>)

(***************************************************************************)
(* src/pep/logging.py: the values mapping                                  *)
(***************************************************************************)
\* a dict
EmptyDict == [key \in {} |-> NoneV]

\* d[key] = value that leaves the value of a key already there
DictSet_keep_first(d, key, value) ==
    [x \in DOMAIN d \cup {key} |-> IF x \in DOMAIN d THEN d[x] ELSE value]

\* d[key] = value
DictSet(d, key, value) == [x \in DOMAIN d \cup {key} |-> IF x = key THEN value ELSE d[x]]

RECURSIVE ValuesLoop(_, _, _)
\* the dict comprehension over the items of the template from item i on
ValuesLoop(items, i, d) ==
    IF i > Len(items) THEN d
    ELSE IF items[i].kind = "Interpolation"
         THEN ValuesLoop(items, i + 1, DictSet(d, items[i].expr, items[i].value))
         ELSE ValuesLoop(items, i + 1, d)

\* TemplateMessage.values, ValuesFormatter.values(template)
values(template) == ValuesLoop(template.args, 1, EmptyDict)

(***************************************************************************)
(* Regular expressions of html.parser, matched as the backtracking matcher *)
(* of re does: a pattern is a sequence of nodes, and the nodes still to be *)
(* matched are the continuation, so that a greedy repetition, an optional  *)
(* group or an alternative is given up only when what follows it fails.    *)
(* A match is [ok, end, caps]: `end` is the position after the match and   *)
(* caps[g] the (start, end) of group g when the group took part.           *)
(***************************************************************************)
In(chars) == [t |-> "in", chars |-> chars]
NotIn(chars) == [t |-> "notin", chars |-> chars]
Star(x) == [t |-> "star", x |-> x]
Opt(x) == [t |-> "opt", x |-> x]
Alt(x, y) == [t |-> "alt", x |-> x, y |-> y]
Behind(chars) == [t |-> "behind", chars |-> chars]
NotAhead(chars) == [t |-> "notahead", chars |-> chars]
Open(g) == [t |-> "open", g |-> g]
Close(g) == [t |-> "close", g |-> g]
Advanced(from) == [t |-> "advanced", from |-> from]

NoCaps == [g \in {} |-> <<0, 0>>]
MatchFailed == [ok |-> FALSE, end |-> 0, caps |-> NoCaps]

\* x* for a set of characters x, and for the characters outside a set
StarIn(chars) == [t |-> "starin", chars |-> chars]
StarNotIn(chars) == [t |-> "starnotin", chars |-> chars]

\* the end of the longest run from i on of characters in chars (outside chars, if neg)
RunEnd(str, i, chars, neg) ==
    CHOOSE j \in i..(Len(str) + 1) :
        /\ \A n \in i..(j - 1) : (str[n] \in chars) # neg
        /\ j <= Len(str) => (str[j] \in chars) = neg

RECURSIVE MatchSeq(_, _, _, _)
\* the first alternative when it matched, the second one otherwise
FirstOr(first, nodes, str, i, caps) ==
    IF first.ok THEN first ELSE MatchSeq(nodes, str, i, caps)

RECURSIVE Shorter(_, _, _, _, _)
\* the first alternative when it matched, a shorter run of the repetition otherwise
FirstOrShorter(first, nodes, str, j, i, caps) ==
    IF first.ok THEN first ELSE Shorter(nodes, str, j - 1, i, caps)

\* the nodes after a greedy repetition that started at i and stops at j
Shorter(nodes, str, j, i, caps) ==
    IF j < i THEN MatchFailed
    ELSE FirstOrShorter(MatchSeq(nodes, str, j, caps), nodes, str, j, i, caps)

\* a node that takes the character at i when it is in chars (outside chars, if neg)
MatchChar(nodes, str, i, caps, neg) ==
    IF i <= Len(str) /\ (str[i] \in Head(nodes).chars) # neg
    THEN MatchSeq(Tail(nodes), str, i + 1, caps) ELSE MatchFailed

\* a node that looks at the characters around i and takes none
MatchIf(cond, nodes, str, i, caps) ==
    IF cond THEN MatchSeq(Tail(nodes), str, i, caps) ELSE MatchFailed

\* the first match of the node sequence at position i of str
MatchSeq(nodes, str, i, caps) ==
    CASE nodes = <<>> -> [ok |-> TRUE, end |-> i, caps |-> caps]
      [] nodes # <<>> /\ Head(nodes).t = "in" -> MatchChar(nodes, str, i, caps, FALSE)
      [] nodes # <<>> /\ Head(nodes).t = "notin" -> MatchChar(nodes, str, i, caps, TRUE)
      [] nodes # <<>> /\ Head(nodes).t = "starin" ->
            Shorter(Tail(nodes), str, RunEnd(str, i, Head(nodes).chars, FALSE), i, caps)
      [] nodes # <<>> /\ Head(nodes).t = "starnotin" ->
            Shorter(Tail(nodes), str, RunEnd(str, i, Head(nodes).chars, TRUE), i, caps)
      [] nodes # <<>> /\ Head(nodes).t = "star" ->
            FirstOr(MatchSeq(Head(nodes).x \o <<Advanced(i)>> \o nodes, str, i, caps),
                    Tail(nodes), str, i, caps)
      [] nodes # <<>> /\ Head(nodes).t = "opt" ->
            FirstOr(MatchSeq(Head(nodes).x \o Tail(nodes), str, i, caps),
                    Tail(nodes), str, i, caps)
      [] nodes # <<>> /\ Head(nodes).t = "alt" ->
            FirstOr(MatchSeq(Head(nodes).x \o Tail(nodes), str, i, caps),
                    Head(nodes).y \o Tail(nodes), str, i, caps)
      [] nodes # <<>> /\ Head(nodes).t = "behind" ->
            MatchIf(i > 1 /\ str[i - 1] \in Head(nodes).chars, nodes, str, i, caps)
      [] nodes # <<>> /\ Head(nodes).t = "notahead" ->
            MatchIf(~(i <= Len(str) /\ str[i] \in Head(nodes).chars), nodes, str, i, caps)
      [] nodes # <<>> /\ Head(nodes).t = "open" ->
            MatchSeq(Tail(nodes), str, i,
                     [g \in DOMAIN caps \cup {Head(nodes).g} |->
                         IF g = Head(nodes).g THEN <<i, 0>> ELSE caps[g]])
      [] nodes # <<>> /\ Head(nodes).t = "close" ->
            MatchSeq(Tail(nodes), str, i,
                     [caps EXCEPT ![Head(nodes).g] = <<caps[Head(nodes).g][1], i>>])
      [] nodes # <<>> /\ Head(nodes).t = "advanced" ->
            MatchIf(i > Head(nodes).from, nodes, str, i, caps)

\* pattern.match(str, i)
ReMatch(pattern, str, i) == MatchSeq(pattern, str, i, NoCaps)

\* match.group(g), "" for a group that took no part
Group(m, str, g) ==
    IF g \in DOMAIN m.caps /\ m.caps[g][2] # 0
    THEN SubSeq(str, m.caps[g][1], m.caps[g][2] - 1) ELSE <<>>

HasGroup(m, g) == g \in DOMAIN m.caps /\ m.caps[g][2] # 0

\* the character U+0000
NUL == "\\0"

Letters == {"a", "b", "c", "d", "e", "f", "g", "h", "i", "j", "k", "l", "m", "n", "o",
            "p", "q", "r", "s", "t", "u", "v", "w", "x", "y", "z",
            "A", "B", "C", "D", "E", "F", "G", "H", "I", "J", "K", "L", "M", "N", "O",
            "P", "Q", "R", "S", "T", "U", "V", "W", "X", "Y", "Z"}
Space == {" ", "\t", "\n", "\r", "\f"}
Quotes == {"'", "\""}

\* (?:\s|/(?!>))*
SpacesAndSlashes == Star(<<Alt(<<In(Space)>>, <<In({"/"}), NotAhead({">"})>>)>>)

\* tagfind_tolerant
tagfind_tolerant ==
    <<Open(1), In(Letters), StarNotIn(Space \cup {"/", ">", NUL}), Close(1),
      SpacesAndSlashes>>

\* the value of an attribute: '...', "..." or a bare value
AttrValue ==
    Alt(<<In({"'"}), StarNotIn({"'"}), In({"'"})>>,
        <<Alt(<<In({"\""}), StarNotIn({"\""}), In({"\""})>>,
              <<NotAhead(Quotes), StarNotIn(Space \cup {">"})>>)>>)

\* attrfind_tolerant
attrfind_tolerant ==
    <<Open(1), Behind(Quotes \cup Space \cup {"/"}), NotIn(Space \cup {"/", ">"}),
      StarNotIn(Space \cup {"/", "=", ">"}), Close(1),
      Opt(<<Open(2), StarIn(Space), In({"="}), StarIn({"="}),
            StarIn(Space), Open(3), AttrValue, Close(3), Close(2)>>),
      SpacesAndSlashes>>

\* locatestarttagend_tolerant
locatestarttagend_tolerant ==
    <<In({"<"}), In(Letters), StarNotIn(Space \cup {"/", ">", NUL}),
      Opt(<<StarIn(Space \cup {"/"}),
            Star(<<Behind(Quotes \cup Space \cup {"/"}), NotIn(Space \cup {"/", ">"}),
                   StarNotIn(Space \cup {"/", "=", ">"}),
                   Opt(<<StarIn(Space), In({"="}), StarIn({"="}),
                         StarIn(Space), AttrValue, StarIn(Space)>>),
                   SpacesAndSlashes>>)>>),
      StarIn(Space)>>

\* endtagfind
endtagfind ==
    <<In({"<"}), In({"/"}), StarIn(Space), Open(1), In(Letters),
      StarIn(Letters \cup {"-", ".", ":", "_"} \cup {DigitChars[d] : d \in 1..10}),
      Close(1), StarIn(Space), In({">"})>>

(***************************************************************************)
(* html.escape and html.unescape                                           *)
(***************************************************************************)
\* escape that leaves the text as it is
escape_nothing(str, quote) == str

RECURSIVE escape_from(_, _, _, _)
escape_from(str, quote, i, out) ==
    IF i > Len(str) THEN out
    ELSE escape_from(str, quote, i + 1,
             out \o (CASE str[i] = "&" -> <<"&", "a", "m", "p", ";">>
                       [] str[i] = "<" -> <<"&", "l", "t", ";">>
                       [] str[i] = ">" -> <<"&", "g", "t", ";">>
                       [] quote /\ str[i] = "\"" -> <<"&", "q", "u", "o", "t", ";">>
                       [] quote /\ str[i] = "'" -> <<"&", "#", "x", "2", "7", ";">>
                       [] OTHER -> <<str[i]>>))

\* html.escape(s, quote)
escape(str, quote) == escape_from(str, quote, 1, <<>>)

RECURSIVE UpTo(_, _)
\* x{0,n}
UpTo(x, n) == IF n = 0 THEN <<>> ELSE <<Opt(x \o UpTo(x, n - 1))>>

Digits == {DigitChars[d] : d \in 1..10}
HexDigits == Digits \cup {"a", "b", "c", "d", "e", "f", "A", "B", "C", "D", "E", "F"}
NameChar == NotIn({"\t", "\n", "\f", " ", "<", "&", "#", ";"})

\* _charref, after the ampersand
_charref ==
    <<Open(1),
      Alt(<<In({"#"}), In(Digits), StarIn(Digits), Opt(<<In({";"})>>)>>,
          <<Alt(<<In({"#"}), In({"x", "X"}), In(HexDigits), StarIn(HexDigits),
                    Opt(<<In({";"})>>)>>,
                <<NameChar>> \o UpTo(<<NameChar>>, 31) \o <<Opt(<<In({";"})>>)>>)>>),
      Close(1)>>

\* the entries of html.entities.html5 that the escaped texts can name
_html5 ==
    [n \in {<<"a", "m", "p", ";">>, <<"a", "m", "p">>, <<"l", "t", ";">>, <<"l", "t">>,
            <<"g", "t", ";">>, <<"g", "t">>, <<"q", "u", "o", "t", ";">>,
            <<"q", "u", "o", "t">>} |->
        CASE n[1] = "a" -> "&" [] n[1] = "l" -> "<" [] n[1] = "g" -> ">" [] OTHER -> "\""]

\* the numeric references that the escaped texts can hold: chr(num)
NumericRefs ==
    [n \in {<<"#", "x", "2", "7", ";">>, <<"#", "x", "2", "7">>, <<"#", "3", "9", ";">>,
            <<"#", "3", "9">>} |-> "'"]

RECURSIVE LongestName(_, _)
\* the longest prefix of name of at least two characters that is in _html5
LongestName(name, x) ==
    IF x < 2 THEN <<"&">> \o name
    ELSE IF SubSeq(name, 1, x) \in DOMAIN _html5
    THEN <<_html5[SubSeq(name, 1, x)]>> \o SubSeq(name, x + 1, Len(name))
    ELSE LongestName(name, x - 1)

\* _replace_charref
_replace_charref(name) ==
    IF name[1] = "#"
    THEN IF name \in DOMAIN NumericRefs THEN <<NumericRefs[name]>> ELSE <<"&">> \o name
    ELSE IF name \in DOMAIN _html5 THEN <<_html5[name]>>
    ELSE LongestName(name, Len(name) - 1)

RECURSIVE unescape_from(_, _, _)
\* the reference that starts at the ampersand at i, replaced
unescape_ref(str, i, out, m) ==
    IF m.ok THEN unescape_from(str, m.end, out \o _replace_charref(Group(m, str, 1)))
    ELSE unescape_from(str, i + 1, Append(out, "&"))

unescape_from(str, i, out) ==
    IF i > Len(str) THEN out
    ELSE IF str[i] = "&" THEN unescape_ref(str, i, out, ReMatch(_charref, str, i + 1))
    ELSE unescape_from(str, i + 1, Append(out, str[i]))

\* html.unescape(s)
unescape(str) == unescape_from(str, 1, <<>>)

RECURSIVE lstrip(_, _)
\* str.lstrip(chars)
lstrip(str, chars) ==
    IF str # <<>> /\ Head(str) \in chars THEN lstrip(Tail(str), chars) ELSE str

RECURSIVE rstrip(_, _)
\* str.rstrip(chars)
rstrip(str, chars) ==
    IF str # <<>> /\ str[Len(str)] \in chars
    THEN rstrip(SubSeq(str, 1, Len(str) - 1), chars) ELSE str

\* str.strip()
strip(str) == lstrip(rstrip(str, Space), Space)

UpperCase == <<"A", "B", "C", "D", "E", "F", "G", "H", "I", "J", "K", "L", "M", "N", "O", "P", "Q", "R", "S", "T", "U", "V", "W", "X", "Y", "Z">>
LowerCase == <<"a", "b", "c", "d", "e", "f", "g", "h", "i", "j", "k", "l", "m", "n", "o", "p", "q", "r", "s", "t", "u", "v", "w", "x", "y", "z">>

LowerChar(c) ==
    IF \E n \in 1..26 : UpperCase[n] = c
    THEN LowerCase[CHOOSE n \in 1..26 : UpperCase[n] = c] ELSE c

\* str.lower()
lower(str) == [n \in 1..Len(str) |-> LowerChar(str[n])]

RECURSIVE Find(_, _, _)
\* str.find(c, i), as the position of c at or after i, 0 when there is none
Find(str, c, i) ==
    IF i > Len(str) THEN 0 ELSE IF str[i] = c THEN i ELSE Find(str, c, i + 1)

(***************************************************************************)
(* src/pep/web.py: Element, and HTMLTemplateParser over html.parser's      *)
(* HTMLParser (convert_charrefs is on; the texts hold no "!" and no "?",   *)
(* so no comment, declaration or processing instruction, and no script or  *)
(* style element).  A parser is [rawdata, stack, root, in_start_tag, err]; *)
(* err is the exception that a handler raised, after which nothing else    *)
(* happens to the parser.                                                  *)
(***************************************************************************)
\* class Element; attributes is a dict, as the sequence of its (key, value) items
Element(tag, attributes, children) ==
    [kind |-> "Element", tag |-> tag, attributes |-> attributes, children |-> children]

\* Element.append
ElementAppend(element, child) ==
    Element(element.tag, element.attributes, Append(element.children, child))

\* one item of a dict of attributes; value is Some(str) or NoneV
Attr(key, value) == [key |-> key, value |-> value]

\* d[key] = value on a dict kept as the sequence of its items
ItemSet(d, key, value) ==
    IF \E n \in 1..Len(d) : d[n].key = key
    THEN [n \in 1..Len(d) |-> IF d[n].key = key THEN Attr(key, value) ELSE d[n]]
    ELSE Append(d, Attr(key, value))

RECURSIVE AttrsDict(_, _, _)
\* {key: value for key, value in attrs}
AttrsDict(attrs, i, d) ==
    IF i > Len(attrs) THEN d
    ELSE AttrsDict(attrs, i + 1, ItemSet(d, attrs[i].key, attrs[i].value))

\* HTMLTemplateParser.__init__
HTMLTemplateParser ==
    [rawdata |-> <<>>, stack |-> <<>>, root |-> NoneV, in_start_tag |-> FALSE, err |-> NoErr]

ParserRaise(p, exc, msg) == [p EXCEPT !.err = [exc |-> exc, msg |-> msg]]

\* handle_starttag that opens an element after the root was set as well
handle_starttag_any_root(p, tag, attrs) ==
    IF p.err # NoErr THEN p
    ELSE [p EXCEPT !.stack = Append(@, Element(tag, AttrsDict(attrs, 1, <<>>), <<>>)),
                   !.in_start_tag = FALSE]

\* HTMLTemplateParser.handle_starttag
handle_starttag(p, tag, attrs) ==
    IF p.err # NoErr THEN p
    ELSE IF p.root.some
    THEN ParserRaise(p, "HTMLParseError", <<"Multiple root elements (", p.root.v.tag, " and ", tag, ")">>)
    ELSE [p EXCEPT !.stack = Append(@, Element(tag, AttrsDict(attrs, 1, <<>>), <<>>)),
                   !.in_start_tag = FALSE]

\* the end of handle_endtag, after element was popped from the stack
EndTagPopped(p, element, tag) ==
    IF element.tag # tag
    THEN ParserRaise(p, "HTMLParseError", <<"Unexpected end tag: ", tag>>)
    ELSE IF p.stack = <<>> THEN [p EXCEPT !.root = Some(element)]
    ELSE [p EXCEPT !.stack[Len(p.stack)] = ElementAppend(@, element)]

\* HTMLTemplateParser.handle_endtag
handle_endtag(p, tag) ==
    IF p.err # NoErr THEN p
    ELSE IF p.stack = <<>> THEN ParserRaise(p, "IndexError", <<"pop from empty list">>)
    ELSE EndTagPopped([p EXCEPT !.stack = SubSeq(@, 1, Len(@) - 1)], p.stack[Len(p.stack)], tag)

\* the end of handle_data, with the stripped data
DataStripped(p, data) ==
    IF data = <<>> THEN p
    ELSE IF p.stack = <<>>
    THEN ParserRaise(p, "HTMLParseError", <<"Data outside of root element: ", data>>)
    ELSE [p EXCEPT !.stack[Len(p.stack)] = ElementAppend(@, Lit(data))]

\* HTMLTemplateParser.handle_data
handle_data(p, data) == IF p.err # NoErr THEN p ELSE DataStripped(p, strip(data))

\* handle_startendtag that leaves the element open
handle_startendtag_open(p, tag, attrs) == handle_starttag(p, tag, attrs)

\* HTMLParser.handle_startendtag
handle_startendtag(p, tag, attrs) == handle_endtag(handle_starttag(p, tag, attrs), tag)

\* the end of check_for_whole_start_tag, with j the end of the match
WholeStartTagAt(rawdata, i, j) ==
    IF j > Len(rawdata) THEN -1
    ELSE IF rawdata[j] = ">" THEN j + 1
    ELSE IF rawdata[j] = "/"
    THEN IF j + 1 <= Len(rawdata) /\ rawdata[j + 1] = ">" THEN j + 2 ELSE -1
    ELSE IF rawdata[j] \in Letters \cup {"="} THEN -1
    ELSE IF j > i THEN j ELSE i + 1

\* HTMLParser.check_for_whole_start_tag: the position after the start tag at i, or -1
check_for_whole_start_tag(rawdata, i) ==
    WholeStartTagAt(rawdata, i, ReMatch(locatestarttagend_tolerant, rawdata, i).end)

\* the value of an attribute, from groups 2 and 3 of attrfind_tolerant
Unquoted(attrvalue) ==
    IF /\ Len(attrvalue) >= 1
       /\ attrvalue[1] \in Quotes
       /\ attrvalue[1] = attrvalue[Len(attrvalue)]
    THEN SubSeq(attrvalue, 2, Len(attrvalue) - 1) ELSE attrvalue

AttrValueOf(rawdata, m) ==
    IF Group(m, rawdata, 2) = <<>> THEN NoneV
    ELSE Some(unescape(Unquoted(Group(m, rawdata, 3))))

RECURSIVE AttrLoop(_, _, _, _)
\* one turn of the loop over the attributes, with the match of attrfind_tolerant at k
AttrTurn(rawdata, k, endpos, attrs, m) ==
    IF ~m.ok THEN [k |-> k, attrs |-> attrs]
    ELSE AttrLoop(rawdata, m.end, endpos,
                  Append(attrs, Attr(lower(Group(m, rawdata, 1)), AttrValueOf(rawdata, m))))

\* while k < endpos: the attributes from k on
AttrLoop(rawdata, k, endpos, attrs) ==
    IF k >= endpos THEN [k |-> k, attrs |-> attrs]
    ELSE AttrTurn(rawdata, k, endpos, attrs, ReMatch(attrfind_tolerant, rawdata, k))

\* the outcome of a parse_ method: the parser and the position reached, -1 for "incomplete"
Parsed(p, k) == [p |-> p, k |-> k]

\* the end of parse_starttag: the text between the attributes and endpos decides
StartTagEnd(p, rawdata, i, endpos, tag, attrs, end) ==
    IF end \notin {<<">">>, <<"/", ">">>}
    THEN Parsed(handle_data(p, SubSeq(rawdata, i, endpos - 1)), endpos)
    ELSE IF end = <<"/", ">">> THEN Parsed(handle_startendtag(p, tag, attrs), endpos)
    ELSE Parsed(handle_starttag(p, tag, attrs), endpos)

StartTagAttrs(p, rawdata, i, endpos, tag, al) ==
    StartTagEnd(p, rawdata, i, endpos, tag, al.attrs, strip(SubSeq(rawdata, al.k, endpos - 1)))

StartTagName(p, rawdata, i, endpos, m) ==
    StartTagAttrs(p, rawdata, i, endpos, lower(Group(m, rawdata, 1)),
                  AttrLoop(rawdata, m.end, endpos, <<>>))

\* HTMLParser.parse_starttag, from endpos on
StartTagWhole(p, rawdata, i, endpos) ==
    IF endpos < 0 THEN Parsed(p, -1)
    ELSE StartTagName(p, rawdata, i, endpos, ReMatch(tagfind_tolerant, rawdata, i + 1))

\* HTMLTemplateParser.parse_starttag
parse_starttag(p, rawdata, i) ==
    StartTagWhole([p EXCEPT !.in_start_tag = TRUE], rawdata, i, check_for_whole_start_tag(rawdata, i))

\* parse_endtag when endtagfind does not match: the name is looked for, tolerantly
EndTagTolerant(p, rawdata, i, namematch) ==
    IF ~namematch.ok
    THEN IF SubSeq(rawdata, i, i + 2) = <<"<", "/", ">">> THEN Parsed(p, i + 3)
         ELSE Parsed(p, Find(rawdata, ">", i + 2) + 1)
    ELSE Parsed(handle_endtag(p, lower(Group(namematch, rawdata, 1))),
                Find(rawdata, ">", namematch.end) + 1)

EndTagFound(p, rawdata, i, m) ==
    IF m.ok THEN Parsed(handle_endtag(p, lower(Group(m, rawdata, 1))), m.end)
    ELSE EndTagTolerant(p, rawdata, i, ReMatch(tagfind_tolerant, rawdata, i + 2))

\* HTMLParser.parse_endtag
parse_endtag(p, rawdata, i) ==
    IF Find(rawdata, ">", i + 1) = 0 THEN Parsed(p, -1)
    ELSE EndTagFound(p, rawdata, i, ReMatch(endtagfind, rawdata, i))

\* an ampersand near the end of the buffer with no whitespace and no ";" after it
AmpPending(rawdata, i) ==
    \E a \in i..Len(rawdata) :
        /\ a >= Len(rawdata) - 33
        /\ rawdata[a] = "&"
        /\ \A b \in (a + 1)..Len(rawdata) : rawdata[b] # "&"
        /\ \A b \in a..Len(rawdata) : rawdata[b] \notin Space \cup {";"}

\* where the data of an incomplete construct ends when the input is over
RecoverEnd(rawdata, i) ==
    IF Find(rawdata, ">", i + 1) # 0 THEN Find(rawdata, ">", i + 1) + 1
    ELSE IF Find(rawdata, "<", i + 1) # 0 THEN Find(rawdata, "<", i + 1)
    ELSE i + 1

\* the end of goahead: at the end of the input the rest is data; the buffer keeps the rest
GoaheadRest(p, rest) == IF p.err # NoErr THEN p ELSE [p EXCEPT !.rawdata = rest]

GoaheadEnd(p, rawdata, i, end) ==
    IF p.err # NoErr THEN p
    ELSE IF end /\ i <= Len(rawdata)
    THEN GoaheadRest(handle_data(p, unescape(SubSeq(rawdata, i, Len(rawdata)))), <<>>)
    ELSE GoaheadRest(p, SubSeq(rawdata, i, Len(rawdata)))

RECURSIVE Goahead(_, _, _, _)
\* after a parse_ method returned r for the construct at i
GoaheadParsed(r, rawdata, i, end) ==
    IF r.p.err # NoErr THEN r.p
    ELSE IF r.k >= 0 THEN Goahead(r.p, rawdata, r.k, end)
    ELSE IF ~end THEN GoaheadEnd(r.p, rawdata, i, end)
    ELSE Goahead(handle_data(r.p, unescape(SubSeq(rawdata, i, RecoverEnd(rawdata, i) - 1))),
                 rawdata, RecoverEnd(rawdata, i), end)

\* the "<" at i
GoaheadTag(p, rawdata, i, end) ==
    IF p.err # NoErr THEN p
    ELSE IF i > Len(rawdata) THEN GoaheadEnd(p, rawdata, i, end)
    ELSE IF i + 1 <= Len(rawdata) /\ rawdata[i + 1] \in Letters
    THEN GoaheadParsed(parse_starttag(p, rawdata, i), rawdata, i, end)
    ELSE IF i + 1 <= Len(rawdata) /\ rawdata[i + 1] = "/"
    THEN GoaheadParsed(parse_endtag(p, rawdata, i), rawdata, i, end)
    ELSE IF i + 1 <= Len(rawdata) THEN Goahead(handle_data(p, <<"<">>), rawdata, i + 1, end)
    ELSE GoaheadEnd(p, rawdata, i, end)

\* the text from i to the next "<" at j (or to the end of the buffer), then the tag
GoaheadText(p, rawdata, i, j, end) ==
    IF i < j THEN GoaheadTag(handle_data(p, unescape(SubSeq(rawdata, i, j - 1))), rawdata, j, end)
    ELSE GoaheadTag(p, rawdata, j, end)

\* HTMLParser.goahead, from position i of the buffer on
Goahead(p, rawdata, i, end) ==
    IF p.err # NoErr THEN p
    ELSE IF i > Len(rawdata) THEN GoaheadEnd(p, rawdata, i, end)
    ELSE IF Find(rawdata, "<", i) # 0 THEN GoaheadText(p, rawdata, i, Find(rawdata, "<", i), end)
    ELSE IF AmpPending(rawdata, i) THEN GoaheadEnd(p, rawdata, i, end)
    ELSE GoaheadText(p, rawdata, i, Len(rawdata) + 1, end)

\* HTMLParser.feed
feed(p, data) ==
    IF p.err # NoErr THEN p
    ELSE Goahead([p EXCEPT !.rawdata = @ \o data], p.rawdata \o data, 1, FALSE)

\* HTMLParser.close
close(p) == IF p.err # NoErr THEN p ELSE Goahead(p, p.rawdata, 1, TRUE)

(***************************************************************************)
(* src/pep/web.py: rendering of an Element, processing of interpolations   *)
(* and html().  The value of an interpolation is a str, an int, a dict of  *)
(* attributes, an Element, a Template or a function (a component).         *)
(***************************************************************************)
DictV(items) == [k |-> "dict", items |-> items]
ElementV(element) == [k |-> "Element", element |-> element]
TemplateV(template) == [k |-> "Template", template |-> template]

\* f"{type(value)}"
TypeRepr(value) ==
    CASE value.k = "int" -> <<"<", "class 'int'", ">">>
      [] value.k = "str" -> <<"<", "class 'str'", ">">>
      [] value.k = "dict" -> <<"<", "class 'dict'", ">">>
      [] value.k = "Element" -> <<"<", "class 'pep.web.Element'", ">">>
      [] value.k = "Template" -> <<"<", "class 'pep.Template'", ">">>
      [] OTHER -> <<"<", "class 'function'", ">">>

\* _render_str_attribute
_render_str_attribute(key, value) == key \o <<"=", "\"">> \o escape(value, TRUE) \o <<"\"">>

\* _render_none_attribute
_render_none_attribute(key) == key

\* _render_attribute
_render_attribute(key, value) ==
    IF value.some THEN _render_str_attribute(key, value.v) ELSE _render_none_attribute(key)

RECURSIVE RenderAttrs(_, _, _)
RenderAttrs(mapping, i, out) ==
    IF i > Len(mapping) THEN out
    ELSE RenderAttrs(mapping, i + 1,
                     out \o (IF i > 1 THEN <<" ">> ELSE <<>>)
                         \o _render_attribute(mapping[i].key, mapping[i].value))

\* _render_attributes_mapping
_render_attributes_mapping(mapping) == RenderAttrs(mapping, 1, <<>>)

RECURSIVE ElementStr(_)
RECURSIVE RenderChildren(_, _, _)
RenderChildren(children, i, out) ==
    IF i > Len(children) THEN out
    ELSE IF children[i].kind = "Element"
    THEN RenderChildren(children, i + 1, out \o ElementStr(children[i]))
    ELSE RenderChildren(children, i + 1, out \o escape(children[i].s, FALSE))

\* _render_children
_render_children(children) == RenderChildren(children, 1, <<>>)

\* Element.__str__ of an element that has a tag, with its attributes rendered
TagStr(element, attributes_str) ==
    IF element.children = <<>>
    THEN IF attributes_str # <<>>
         THEN <<"<">> \o element.tag \o <<" ">> \o attributes_str \o <<" ", "/", ">">>
         ELSE <<"<">> \o element.tag \o <<" ", "/", ">">>
    ELSE IF attributes_str # <<>>
    THEN <<"<">> \o element.tag \o <<" ">> \o attributes_str \o <<">">>
             \o _render_children(element.children) \o <<"<", "/">> \o element.tag \o <<">">>
    ELSE <<"<">> \o element.tag \o <<">">>
             \o _render_children(element.children) \o <<"<", "/">> \o element.tag \o <<">">>

\* Element.__str__
ElementStr(element) ==
    IF element.tag = <<>> THEN _render_children(element.children)
    ELSE TagStr(element, _render_attributes_mapping(element.attributes))

\* _process_start_tag_interpolation that takes a value of any other type for an empty text
_process_start_tag_interpolation_any(value) ==
    IF value.k = "dict" THEN Returned(_render_attributes_mapping(value.items))
    ELSE IF value.k = "str" THEN Returned(<<"\"">> \o escape(value.v, TRUE) \o <<"\"">>)
    ELSE Returned(<<"\"", "\"">>)

\* _process_start_tag_interpolation
_process_start_tag_interpolation(value) ==
    IF value.k = "dict" THEN Returned(_render_attributes_mapping(value.items))
    ELSE IF value.k = "str" THEN Returned(<<"\"">> \o escape(value.v, TRUE) \o <<"\"">>)
    ELSE Raised("HTMLParseError", <<"Unsupported start tag interpolation: ">> \o TypeRepr(value))

\* the characters that _make_component_name keeps: [a-zA-Z0-9\s-]
SlugChars == Letters \cup Digits \cup Space \cup {"-"}

RECURSIVE Keep(_, _)
\* re.sub(r"[^a-zA-Z0-9\s-]", "", expr)
Keep(str, chars) ==
    IF str = <<>> THEN <<>>
    ELSE IF Head(str) \in chars THEN <<Head(str)>> \o Keep(Tail(str), chars)
    ELSE Keep(Tail(str), chars)

RECURSIVE Dashes(_, _)
\* re.sub(r"[-\s]+", "-", str)
Dashes(str, out) ==
    IF str = <<>> THEN out
    ELSE IF Head(str) \in Space \cup {"-"}
    THEN Dashes(lstrip(str, Space \cup {"-"}), Append(out, "-"))
    ELSE Dashes(Tail(str), Append(out, Head(str)))

ComponentPrefix == <<"c", "o", "m", "p", "o", "n", "e", "n", "t", "-">>
ComponentSuffix == <<"-", "c", "o", "m", "p", "o", "n", "e", "n", "t">>

\* _make_component_name
_make_component_name(expr) ==
    ComponentPrefix
        \o lower(lstrip(rstrip(Dashes(Keep(expr, SlugChars), <<>>), {"-"}), {"-"}))
        \o ComponentSuffix

\* d[key], for a key of the dict d
ItemGet(d, key) == d[CHOOSE n \in 1..Len(d) : d[n].key = key].value

HasItem(d, key) == \E n \in 1..Len(d) : d[n].key = key

\* the call component(attributes, children) of a component: as the components of the
\* tests do, it wraps the children in an element of its own and signs the attributes
ComponentCall(component, attributes, children) ==
    IF component.raises THEN Raised("NameError", component.name)
    ELSE Returned(Element(component.ret.v, ItemSet(attributes, <<"b", "y">>, Some(component.name)),
                          children))

\* an outcome with the calls of components made so far
Invoking(r, invoked) == [status |-> r.status, val |-> r.val, err |-> r.err, invoked |-> invoked]

Invocation(component, attributes, children) ==
    [component |-> component.name, attributes |-> attributes, children |-> children]

RECURSIVE _invoke_components(_, _, _)
RECURSIVE InvokeChildren(_, _, _, _, _)
\* the child i of the element, resolved (r), joins the children
InvokedChild(element, components, i, children, r) ==
    IF r.status = "raised" THEN r
    ELSE InvokeChildren(element, components, i + 1, Append(children, r.val), r.invoked)

\* _invoke_components, after the children: the element itself
InvokeSelf(element, components, children, invoked) ==
    IF HasItem(components, element.tag)
    THEN Invoking(ComponentCall(ItemGet(components, element.tag), element.attributes, children),
                  Append(invoked, Invocation(ItemGet(components, element.tag),
                                             element.attributes, children)))
    ELSE Invoking(Returned(Element(element.tag, element.attributes, children)), invoked)

\* _invoke_components that hands the children over as they were parsed
_invoke_components_shallow(element, components, invoked) ==
    InvokeSelf(element, components, element.children, invoked)

\* the list comprehension over element.children, from child i on
InvokeChildren(element, components, i, children, invoked) ==
    IF i > Len(element.children) THEN InvokeSelf(element, components, children, invoked)
    ELSE IF element.children[i].kind = "Element"
    THEN InvokedChild(element, components, i, children,
                      _invoke_components(element.children[i], components, invoked))
    ELSE InvokeChildren(element, components, i + 1, Append(children, element.children[i]),
                        invoked)

\* _invoke_components(element, components); invoked lists the calls made before
_invoke_components(element, components, invoked) ==
    InvokeChildren(element, components, 1, <<>>, invoked)

(***************************************************************************)
(* html(): a run is the parser, the components registered so far, the      *)
(* texts fed so far and the exception raised, if any.                      *)
(***************************************************************************)
NewRun == [parser |-> HTMLTemplateParser, components |-> <<>>, fed |-> <<>>, err |-> NoErr]

\* parser.feed(data) in html()
Fed(run, data, parser) ==
    [run EXCEPT !.parser = parser, !.fed = Append(@, data), !.err = parser.err]

\* the text that an interpolation was processed to (r) is fed
FeedProcessed(run, r) ==
    IF r.status = "raised" THEN [run EXCEPT !.err = r.err]
    ELSE Fed(run, r.val, feed(run.parser, r.val))

RECURSIVE html(_)
\* _process_content_interpolation of a Template: str(html(value))
NestedStr(r) == IF r.status = "raised" THEN Reraise(r) ELSE Returned(ElementStr(r.val))

\* _process_content_interpolation that escapes the text of an Element as it does a str
_process_content_interpolation_escaped(value) ==
    IF value.k = "Element" THEN Returned(escape(ElementStr(value.element), FALSE))
    ELSE IF value.k = "Template" THEN NestedStr(html(value.template))
    ELSE IF value.k = "str" THEN Returned(escape(value.v, FALSE))
    ELSE Raised("HTMLParseError", <<"Unsupported content interpolation: ">> \o TypeRepr(value))

\* _process_content_interpolation
_process_content_interpolation(value) ==
    IF value.k = "Element" THEN Returned(ElementStr(value.element))
    ELSE IF value.k = "Template" THEN NestedStr(html(value.template))
    ELSE IF value.k = "str" THEN Returned(escape(value.v, FALSE))
    ELSE Raised("HTMLParseError", <<"Unsupported content interpolation: ">> \o TypeRepr(value))

\* the body of the loop of html() for an Interpolation outside a start tag
ContentArg(run, i) ==
    IF callable(i.value)
    THEN FeedProcessed([run EXCEPT !.components =
                                       ItemSet(@, _make_component_name(i.expr), i.value)],
                       _process_content_interpolation(StrV(_make_component_name(i.expr))))
    ELSE FeedProcessed(run, _process_content_interpolation(i.value))

\* the body of the loop of html(): one argument of the template
HtmlArg(run, arg) ==
    IF run.err # NoErr THEN run
    ELSE IF isinstance_str(arg) THEN Fed(run, arg.s, feed(run.parser, arg.s))
    ELSE IF run.parser.in_start_tag
    THEN FeedProcessed(run, _process_start_tag_interpolation(arg.value))
    ELSE ContentArg(run, arg)

\* html() after parser.close(): the root, with its components invoked
HtmlRoot(run, parser) ==
    IF parser.err # NoErr
    THEN Invoking([status |-> "raised", val |-> <<>>, err |-> parser.err], <<>>)
    ELSE IF ~parser.root.some
    THEN Invoking(Raised("HTMLParseError", <<"No root element">>), <<>>)
    ELSE _invoke_components(parser.root.v, run.components, <<>>)

\* html() after the loop
HtmlFinish(run) ==
    IF run.err # NoErr THEN Invoking([status |-> "raised", val |-> <<>>, err |-> run.err], <<>>)
    ELSE HtmlRoot(run, close(run.parser))

RECURSIVE HtmlLoop(_, _, _)
\* for arg in template.args, from argument i on
HtmlLoop(run, args, i) ==
    IF i > Len(args) THEN run ELSE HtmlLoop(HtmlArg(run, args[i]), args, i + 1)

\* html(template)
html(template) == HtmlFinish(HtmlLoop(NewRun, template.args, 1))

(***************************************************************************)
(* src/pep/format.py: the regular expression of _parse_fmt_string. It has  *)
(* four groups: the static text before a field (any characters but a       *)
(* newline, as few as possible), the key after the opening brace (no       *)
(* braces, as few as possible), an optional conversion (an exclamation     *)
(* mark and one of s, r, a) and an optional format spec (a colon, then     *)
(* non-brace characters and brace-enclosed groups of non-brace             *)
(* characters), before the closing brace.                                  *)
(*                                                                         *)
(* It is matched as the backtracking matcher does: the shortest group 1,   *)
(* then the shortest group 2, for which the rest matches; the conversion   *)
(* and the format spec are taken when what follows them matches.           *)
(* Positions are 1-based; a match covers fmt[start..last].                 *)
(***************************************************************************)
IsBrace(c) == c \in {"{", "}"}
IsNewline(c) == c = "\n"

NoMatch ==
    [ok |-> FALSE, start |-> 0, last |-> 0, static_string |-> <<>>, key |-> <<>>,
     conversion_spec |-> NoneV, format_spec |-> NoneV]

RECURSIVE NonBraceRunEnd(_, _)
\* group of non-brace characters from q: the position after the longest run of non-brace characters
NonBraceRunEnd(fmt, q) ==
    IF q <= Len(fmt) /\ ~IsBrace(fmt[q]) THEN NonBraceRunEnd(fmt, q + 1) ELSE q

RECURSIVE SpecEnd(_, _)
\* the format-spec group from q: the position after the longest run of
\* non-brace characters and {...} groups
SpecEnd(fmt, q) ==
    IF q > Len(fmt) THEN q
    ELSE IF ~IsBrace(fmt[q]) THEN SpecEnd(fmt, q + 1)
    ELSE IF fmt[q] = "{"
         THEN LET e == NonBraceRunEnd(fmt, q + 1)
              IN  IF e <= Len(fmt) /\ fmt[e] = "}" THEN SpecEnd(fmt, e + 1) ELSE q
         ELSE q

NoRest == [ok |-> FALSE, last |-> 0, conversion_spec |-> NoneV, format_spec |-> NoneV]

\* the closing brace at e, after the format spec fmt[q+1..e-1] that starts
\* with the colon at q, or the closing brace at q when that does not match
SpecThenClose(fmt, q, conv, e) ==
    IF q <= Len(fmt) /\ fmt[q] = ":" /\ e <= Len(fmt) /\ fmt[e] = "}"
    THEN [ok |-> TRUE, last |-> e, conversion_spec |-> conv,
          format_spec |-> Some(SubSeq(fmt, q + 1, e - 1))]
    ELSE IF q <= Len(fmt) /\ fmt[q] = "}"
         THEN [ok |-> TRUE, last |-> q, conversion_spec |-> conv, format_spec |-> NoneV]
         ELSE NoRest

\* the optional format spec and the closing brace from q, after a conversion
\* `conv` (NoneV when there is none)
MatchSpecAndClose(fmt, q, conv) == SpecThenClose(fmt, q, conv, SpecEnd(fmt, q + 1))

\* `with` when the conversion was taken and the rest matched, the match
\* without a conversion otherwise
ConvOrNot(fmt, q, with) == IF with.ok THEN with ELSE MatchSpecAndClose(fmt, q, NoneV)

\* the optional conversion, the optional format spec and the closing brace
\* from q
MatchConvSpecClose(fmt, q) ==
    ConvOrNot(fmt, q,
              IF q + 1 <= Len(fmt) /\ fmt[q] = "!" /\ fmt[q + 1] \in {"s", "r", "a"}
              THEN MatchSpecAndClose(fmt, q + 2, Some(<<fmt[q + 1]>>))
              ELSE NoRest)

NoField == [ok |-> FALSE, key |-> <<>>, last |-> 0, conversion_spec |-> NoneV,
            format_spec |-> NoneV]

RECURSIVE MatchKey(_, _, _)
RECURSIVE KeyThenRest(_, _, _, _)
\* the key fmt[k+1..k+m] when `rest` matched after it, a longer key otherwise
KeyThenRest(fmt, k, m, rest) ==
    IF rest.ok
    THEN [ok |-> TRUE, key |-> SubSeq(fmt, k + 1, k + m), last |-> rest.last,
          conversion_spec |-> rest.conversion_spec, format_spec |-> rest.format_spec]
    ELSE IF k + 1 + m <= Len(fmt) /\ ~IsBrace(fmt[k + 1 + m])
         THEN MatchKey(fmt, k, m + 1)
         ELSE NoField

\* the key and the rest, for the field whose opening brace is at k, trying
\* a key of m characters first
MatchKey(fmt, k, m) == KeyThenRest(fmt, k, m, MatchConvSpecClose(fmt, k + 1 + m))

RECURSIVE MatchFrom(_, _, _)
RECURSIVE TextThenField(_, _, _, _)
\* group 1 is fmt[s..k-1] when `field` matched at k, a longer group 1
\* otherwise
TextThenField(fmt, s, k, field) ==
    IF field.ok
    THEN [ok |-> TRUE, start |-> s, last |-> field.last,
          static_string |-> SubSeq(fmt, s, k - 1), key |-> field.key,
          conversion_spec |-> field.conversion_spec, format_spec |-> field.format_spec]
    ELSE IF IsNewline(fmt[k]) THEN NoMatch ELSE MatchFrom(fmt, s, k + 1)

\* the match that starts at s, trying the opening brace at k first
MatchFrom(fmt, s, k) ==
    IF k > Len(fmt) THEN NoMatch
    ELSE TextThenField(fmt, s, k, IF fmt[k] = "{" THEN MatchKey(fmt, k, 0) ELSE NoField)

RECURSIVE Search(_, _)
RECURSIVE FoundOrLater(_, _, _)
FoundOrLater(fmt, s, found) == IF found.ok THEN found ELSE Search(fmt, s + 1)

\* pattern.finditer(fmt): the leftmost match that starts at s or later
Search(fmt, s) == IF s > Len(fmt) THEN NoMatch ELSE FoundOrLater(fmt, s, MatchFrom(fmt, s, s))

(***************************************************************************)
(* src/pep/format.py: _parse_fmt_string and make_template                  *)
(***************************************************************************)
AutoToManual == "cannot switch from automatic field numbering to manual field specification"

\* a ParsedInterpolation (index, key, format_spec, conversion_spec)
ParsedInterpolation(index, key, format_spec, conversion_spec) ==
    [kind |-> "parsed", index |-> index, key |-> key, format_spec |-> format_spec,
     conversion_spec |-> conversion_spec]

RECURSIVE AfterBang(_)
\* key.split("!", maxsplit=1)[-1] for a key that holds a "!"
AfterBang(key) == IF Head(key) = "!" THEN Tail(key) ELSE AfterBang(Tail(key))

Contains(s, c) == \E i \in 1..Len(s) : s[i] = c

\* group 3 of the match: the conversion, "None" when the group did not take part
conversion_spec_of(match) ==
    IF match.conversion_spec.some /\ match.conversion_spec.v # <<>>
    THEN match.conversion_spec.v[1] ELSE "None"

\* group 4 of the match: the format spec, "" when the group did not take part
format_spec_of(match) == IF match.format_spec.some THEN match.format_spec.v ELSE <<>>

\* result after the text before the match and group 1 of the match
WithStatic(fmt, pos, match, result) ==
    (IF pos < match.start THEN Append(result, Lit(SubSeq(fmt, pos, match.start - 1)))
     ELSE result)
    \o (IF match.static_string # <<>> THEN <<Lit(match.static_string)>> ELSE <<>>)

RECURSIVE ParseLoop(_, _, _, _, _)
RECURSIVE ParseMatch(_, _, _, _, _, _, _, _)
\* the body of the for loop of _parse_fmt_string for one match, `result`
\* holding the text before the field already
ParseMatch(fmt, current_index, numbering_mode, result, match, key, conversion_spec, format_spec) ==
    IF conversion_spec \notin {"None", "a", "r", "s"}
    THEN Raised("ValueError", <<"Unknown conversion specifier: ", <<conversion_spec>>>>)
    ELSE IF format_spec # <<>> /\ startswith(format_spec, <<"{">>)
            /\ endswith(format_spec, <<"}">>)
    THEN Raised("NotImplementedError", <<"Format spec interpolations are not supported">>)
    ELSE IF Contains(key, "!")
    THEN Raised("ValueError", <<"Unknown conversion specifier: ", AfterBang(key)>>)
    ELSE IF key = <<>>
    THEN IF numbering_mode = "manual"
         THEN Raised("ValueError", <<AutoToManual>>)
         ELSE ParseLoop(fmt, match.last + 1, current_index + 1, "auto",
                        Append(result,
                               ParsedInterpolation(Some(current_index), NoneV,
                                                   format_spec, conversion_spec)))
    ELSE IF isdigit(key)
    THEN IF numbering_mode = "auto"
         THEN Raised("ValueError", <<AutoToManual>>)
         ELSE ParseLoop(fmt, match.last + 1, current_index, "manual",
                        Append(result,
                               ParsedInterpolation(Some(ParseNat(key, 0)), NoneV,
                                                   format_spec, conversion_spec)))
    ELSE ParseLoop(fmt, match.last + 1, current_index, numbering_mode,
                   Append(result,
                          ParsedInterpolation(NoneV, Some(key), format_spec,
                                              conversion_spec)))

\* one match of the for loop, or what follows the loop when there is none
ParseStep(fmt, pos, current_index, numbering_mode, result, match) ==
    IF ~match.ok
    THEN Returned(IF pos <= Len(fmt)
                  THEN Append(result, Lit(SubSeq(fmt, pos, Len(fmt)))) ELSE result)
    ELSE ParseMatch(fmt, current_index, numbering_mode,
                    WithStatic(fmt, pos, match, result), match, match.key,
                    conversion_spec_of(match), format_spec_of(match))

\* the for loop of _parse_fmt_string over the matches after fmt[pos - 1],
\* and what follows the loop
ParseLoop(fmt, pos, current_index, numbering_mode, result) ==
    ParseStep(fmt, pos, current_index, numbering_mode, result, Search(fmt, pos))

_parse_fmt_string(fmt) == ParseLoop(fmt, 1, 0, "None", <<>>)

RECURSIVE MakeLoop(_, _, _, _, _)
RECURSIVE MakePart(_, _, _, _, _, _)
\* one part of the parse in the for loop of make_template
MakePart(parsed, i, args, kwargs, template_args, part) ==
    IF isinstance_str(part)
    THEN MakeLoop(parsed, i + 1, args, kwargs, Append(template_args, part))
    ELSE IF part.index.some
    THEN IF part.index.v >= Len(args)
         THEN Raised("IndexError",
                     <<"Replacement index out of range for positional args tuple",
                       NatToStr(part.index.v)>>)
         ELSE MakeLoop(parsed, i + 1, args, kwargs,
                       Append(template_args,
                              Interpolation(args[part.index.v + 1],
                                            <<"a", "r", "g", "s", "[">>
                                                \o NatToStr(part.index.v) \o <<"]">>,
                                            part.conversion_spec, part.format_spec)))
    ELSE IF part.key.v \notin DOMAIN kwargs
         THEN Raised("KeyError", <<part.key.v>>)
         ELSE MakeLoop(parsed, i + 1, args, kwargs,
                       Append(template_args,
                              Interpolation(kwargs[part.key.v],
                                            <<"k", "w", "a", "r", "g", "s", "[">>
                                                \o Repr(StrV(part.key.v)) \o <<"]">>,
                                            part.conversion_spec, part.format_spec)))

\* the for loop of make_template from part i of the parse on
MakeLoop(parsed, i, args, kwargs, template_args) ==
    IF i > Len(parsed) THEN Returned(Template(template_args))
    ELSE MakePart(parsed, i, args, kwargs, template_args, parsed[i])

\* make_template once the format string is parsed
MakeFrom(parsed, args, kwargs) ==
    IF parsed.status = "raised" THEN Reraise(parsed)
    ELSE MakeLoop(parsed.val, 1, args, kwargs, <<>>)

make_template(fmt, args, kwargs) == MakeFrom(_parse_fmt_string(fmt), args, kwargs)

(***************************************************************************)
(* Direct substitution, fmt.format of args and kwargs: the str.format()    *)
(* that make_template is written against, as CPython's formatter scans a   *)
(* format string. `auto` is the numbering state (mode, next automatic      *)
(* index), shared with the fields nested in a format spec; `depth` is the  *)
(* nesting still allowed. Field names hold no '.' and no '[' in the model. *)
(***************************************************************************)
ManualToAuto == "cannot switch from manual field specification to automatic field numbering"

SFRaised(exc, msg, auto) ==
    [status |-> "raised", val |-> <<>>, err |-> [exc |-> exc, msg |-> msg],
     auto |-> auto, next |-> 0]

RECURSIVE SFNameEnd(_, _)
\* the position of the character that ends the field name (one of } : !),
\* 0 for a { in the name, Len + 1 when the string ends first
SFNameEnd(s, i) ==
    IF i > Len(s) THEN i
    ELSE IF s[i] = "{" THEN 0
    ELSE IF s[i] \in {"}", ":", "!"} THEN i
    ELSE SFNameEnd(s, i + 1)

RECURSIVE SFSpecClose(_, _, _)
\* the position of the } that closes the field whose format spec starts at
\* q, counting nested braces; 0 when there is none
SFSpecClose(s, q, count) ==
    IF q > Len(s) THEN 0
    ELSE IF s[q] = "{" THEN SFSpecClose(s, q + 1, count + 1)
    ELSE IF s[q] = "}"
         THEN IF count = 1 THEN q ELSE SFSpecClose(s, q + 1, count - 1)
         ELSE SFSpecClose(s, q + 1, count)

\* the field's object: by automatic index, by explicit index, or by keyword
SFGetField(name, args, kwargs, auto) ==
    LET numeric == name = <<>> \/ isdigit(name)
        mode == IF numeric /\ auto.mode = "init"
                THEN (IF name = <<>> THEN "auto" ELSE "manual") ELSE auto.mode
        index == IF name = <<>> THEN auto.idx ELSE ParseNat(name, 0)
        auto1 == [mode |-> mode,
                  idx |-> IF name = <<>> THEN auto.idx + 1 ELSE auto.idx]
    IN  IF numeric /\ mode = "manual" /\ name = <<>>
        THEN SFRaised("ValueError", <<ManualToAuto>>, auto)
        ELSE IF numeric /\ mode = "auto" /\ name # <<>>
        THEN SFRaised("ValueError", <<AutoToManual>>, auto)
        ELSE IF numeric
        THEN IF index >= Len(args)
             THEN SFRaised("IndexError",
                           <<"Replacement index out of range for positional args tuple",
                             NatToStr(index)>>, auto1)
             ELSE [status |-> "ok", val |-> args[index + 1], err |-> NoErr,
                   auto |-> auto1, next |-> 0]
        ELSE IF name \notin DOMAIN kwargs
             THEN SFRaised("KeyError", <<name>>, auto1)
             ELSE [status |-> "ok", val |-> kwargs[name], err |-> NoErr,
                   auto |-> auto1, next |-> 0]

RECURSIVE SFLoop(_, _, _, _, _, _, _)
RECURSIVE SFField(_, _, _, _, _, _)

\* the replacement field whose { is at p - 1: its text, the numbering state
\* after it, and the position after its }
SFField(s, p, args, kwargs, auto, depth) ==
    LET i == SFNameEnd(s, p) IN
    IF i = 0 THEN SFRaised("ValueError", <<"unexpected '{' in field name">>, auto)
    ELSE IF i > Len(s)
    THEN SFRaised("ValueError", <<"expected '}' before end of string">>, auto)
    ELSE IF s[i] = "!" /\ i + 1 > Len(s)
    THEN SFRaised("ValueError",
                  <<"end of string while looking for conversion specifier">>, auto)
    ELSE IF s[i] = "!" /\ i + 2 <= Len(s) /\ s[i + 2] \notin {"}", ":"}
    THEN SFRaised("ValueError", <<"expected ':' after conversion specifier">>, auto)
    ELSE
    LET name == SubSeq(s, p, i - 1)
        conversion == IF s[i] = "!" THEN s[i + 1] ELSE "None"
        no_spec == s[i] = "}" \/ (s[i] = "!" /\ i + 2 <= Len(s) /\ s[i + 2] = "}")
        q == IF s[i] = ":" THEN i + 1
             ELSE IF i + 2 <= Len(s) THEN i + 3 ELSE i + 2
        close_at == IF no_spec THEN (IF s[i] = "}" THEN i ELSE i + 2)
                 ELSE SFSpecClose(s, q, 1)
    IN
    IF close_at = 0 THEN SFRaised("ValueError", <<"unmatched '{' in format spec">>, auto)
    ELSE
    LET spec_text == IF no_spec THEN <<>> ELSE SubSeq(s, q, close_at - 1)
        obj == SFGetField(name, args, kwargs, auto)
    IN
    IF obj.status = "raised" THEN obj
    ELSE IF conversion \notin {"None", "r", "s", "a"}
    THEN SFRaised("ValueError", <<"Unknown conversion specifier ", conversion>>, obj.auto)
    ELSE
    LET value == CASE conversion = "r" -> StrV(Repr(obj.val))
                   [] conversion = "s" -> StrV(Str(obj.val))
                   [] conversion = "a" -> StrV(Ascii(obj.val))
                   [] OTHER -> obj.val
        expanded == IF Contains(spec_text, "{")
                    THEN IF depth - 1 <= 0
                         THEN SFRaised("ValueError", <<"Max string recursion exceeded">>,
                                       obj.auto)
                         ELSE SFLoop(spec_text, 1, <<>>, args, kwargs, obj.auto, depth - 1)
                    ELSE [status |-> "ok", val |-> spec_text, err |-> NoErr,
                          auto |-> obj.auto, next |-> 0]
    IN
    IF expanded.status = "raised" THEN expanded
    ELSE LET r == Format(value, expanded.val)
         IN  [status |-> r.status, val |-> r.val, err |-> r.err,
              auto |-> expanded.auto, next |-> close_at + 1]

\* the scan of s from p on, `out` being the text produced so far
SFLoop(s, p, out, args, kwargs, auto, depth) ==
    IF p > Len(s)
    THEN [status |-> "ok", val |-> out, err |-> NoErr, auto |-> auto, next |-> p]
    ELSE IF ~IsBrace(s[p]) THEN SFLoop(s, p + 1, Append(out, s[p]), args, kwargs, auto, depth)
    ELSE IF p = Len(s)
    THEN SFRaised("ValueError", <<"Single brace encountered in format string", s[p]>>, auto)
    ELSE IF s[p + 1] = s[p]
    THEN SFLoop(s, p + 2, Append(out, s[p]), args, kwargs, auto, depth)
    ELSE IF s[p] = "}"
    THEN SFRaised("ValueError", <<"Single brace encountered in format string", s[p]>>, auto)
    ELSE LET field == SFField(s, p + 1, args, kwargs, auto, depth)
         IN  IF field.status = "raised" THEN field
             ELSE SFLoop(s, field.next, out \o field.val, args, kwargs, field.auto, depth)

\* fmt.format of the positional args and the keyword kwargs
StrFormat(fmt, args, kwargs) ==
    LET r == SFLoop(fmt, 1, <<>>, args, kwargs, [mode |-> "init", idx |-> 0], 2)
    IN  [status |-> r.status, val |-> r.val, err |-> r.err]

(***************************************************************************)
(* Inputs of the model.                                                    *)
(***************************************************************************)
NoCall == [status |-> "none", val |-> <<>>, err |-> NoErr]

\* Arguments of Template(): literals and Interpolations
I1 == Interpolation(IntV(42), <<"i", "1">>, "None", <<>>)
I2 == Interpolation(IntV(99), <<"i", "2">>, "None", <<>>)
NewParts == {Lit(<<"a">>), Lit(<<"b">>), I1, I2}

\* Arguments of t(): literals and old-style interpolations, among them the
\* one whose format spec the older implementation reports as its conv
O1 == OldVersionOfInterpolation(IntV(42), <<"x">>, NoneV, NoneV)
O2 == OldVersionOfInterpolation(IntV(42), <<"x">>, Some(<<"0", "4", "d">>), NoneV)
O3 == OldVersionOfInterpolation(IntV(42), <<"x">>, Some(<<"r">>), Some(<<"3">>))
OldParts == {Lit(<<"a">>), Lit(<<"b">>), O1, O2, O3}

\* Arguments of f(): templates over an int, a non-ASCII str, every conversion,
\* and a format spec that is valid for an int only
FValues == {IntV(42), StrV(<<"é">>)}
Convs == {"None", "a", "r", "s"}
FSpecs == {<<>>, <<"0", "4", "d">>}
FParts ==
    {Lit(<<"a">>)} \cup
    {Interpolation(v, <<"x">>, c, s) : v \in FValues, c \in Convs, s \in FSpecs}

AsyncIdle ==
    /\ a_pc = "idle"
    /\ a_i = 0
    /\ a_parts = <<>>
    /\ a_log = <<>>
    /\ a_out = NoCall
    /\ ticks = 0

\* no object has been constructed
NoObject == [class |-> "none"]

ObjIdle ==
    /\ self = NoObject
    /\ hist = <<>>

(***************************************************************************)
(* The Template constructor and t(): one call on one argument list.        *)
(***************************************************************************)
InitTemplate ==
    /\ call_op = "none"
    /\ call_in \in
          {[api |-> "Template", args |-> s] : s \in SeqsUpTo(NewParts, MaxParts)}
          \cup {[api |-> "t", args |-> s] : s \in SeqsUpTo(OldParts, MaxParts)}
    /\ call_out = NoCall
    /\ AsyncIdle
    /\ ObjIdle

\* template = Template(*args)
TemplateNew ==
    /\ call_op = "none"
    /\ call_in.api = "Template"
    /\ call_op' = "Template"
    /\ call_out' = Returned(Template(call_in.args))
    /\ UNCHANGED <<call_in, asyncVars, objVars>>

\* template = t(*args)
TCall ==
    /\ call_op = "none"
    /\ call_in.api = "t"
    /\ call_op' = "t"
    /\ call_out' = t(call_in.args)
    /\ UNCHANGED <<call_in, asyncVars, objVars>>

NextTemplate == TemplateNew \/ TCall

SpecTemplate == InitTemplate /\ [][NextTemplate]_vars

(***************************************************************************)
(* f(): one call on one template.                                          *)
(***************************************************************************)
InitF ==
    /\ call_op = "none"
    /\ call_in \in {[api |-> "f", args |-> Template(s)] : s \in SeqsUpTo(FParts, MaxParts)}
    /\ call_out = NoCall
    /\ AsyncIdle
    /\ ObjIdle

\* result = f(template)
FCall ==
    /\ call_op = "none"
    /\ call_in.api = "f"
    /\ call_op' = "f"
    /\ call_out' = f(call_in.args)
    /\ UNCHANGED <<call_in, asyncVars, objVars>>

NextF == FCall

SpecF == InitF /\ [][NextF]_vars

(***************************************************************************)
(* aformat() and async_f(): one render of one template whose values are a  *)
(* plain value, plain functions and coroutine functions, some of which     *)
(* raise.                                                                  *)
(***************************************************************************)
AsyncValues ==
    {IntV(42),
     FnV(<<"g">>, IntV(42), FALSE),
     FnV(<<"n">>, IntV(0), TRUE),
     CoroV(<<"c">>, StrV(<<"é">>), FALSE),
     CoroV(<<"b">>, IntV(0), TRUE)}
AsyncConvSpecs == {<<"None", <<>>>>, <<"r", <<>>>>, <<"None", <<"0", "4", "d">>>>}
AsyncParts ==
    {Lit(<<"a">>)} \cup
    {Interpolation(v, <<"x">>, cs[1], cs[2]) : v \in AsyncValues, cs \in AsyncConvSpecs}

InitAsync ==
    /\ call_op = "none"
    /\ call_in \in {[api |-> api, args |-> Template(s)] :
                        api \in {"aformat", "async_f"},
                        s \in SeqsUpTo(AsyncParts, MaxParts)}
    /\ call_out = NoCall
    /\ AsyncIdle
    /\ ObjIdle

NextAsync == ACall \/ AformatStep \/ AsyncFStep \/ AwaitDone \/ OtherTask

SpecAsync == InitAsync /\ [][NextAsync]_vars

(***************************************************************************)
(* make_template(): one call on one format string, the positional          *)
(* arguments and the keyword argument a, then f() on the Template made.    *)
(***************************************************************************)
FmtAlphabet == {"{", "}", "1", "a", ":", "!"}
FmtValues == {IntV(1), StrV(<<"é">>)}
FmtKwargs == [name \in {<<"a">>} |-> StrV(<<"é">>)]

\* format strings longer than MaxFmtLen: an unknown conversion on a field
\* whose format spec is the one of the docstring of make_template, and a
\* format spec that holds a placeholder after a width
FmtLonger == {<<"{", "!", "1", ":", "{", "}", "}">>, <<"{", ":", "1", "{", "}", "}">>}

InitFormat ==
    /\ call_op = "none"
    /\ call_in \in {[api |-> "make_template", fmt |-> fmt, args |-> args,
                     kwargs |-> FmtKwargs] :
                        fmt \in SeqsUpTo(FmtAlphabet, MaxFmtLen) \cup FmtLonger,
                        args \in SeqsUpTo(FmtValues, MaxArgs)}
    /\ call_out = NoCall
    /\ AsyncIdle
    /\ ObjIdle

\* template = make_template(fmt, *args, **kwargs)
MakeTemplateCall ==
    /\ call_op = "none"
    /\ call_in.api = "make_template"
    /\ call_op' = "make_template"
    /\ call_out' = make_template(call_in.fmt, call_in.args, call_in.kwargs)
    /\ UNCHANGED <<call_in, asyncVars, objVars>>

\* the outcome of f(template), kept with the template it rendered
Rendered(template, out) ==
    [status |-> out.status, val |-> out.val, err |-> out.err, template |-> template]

\* rendered = f(template), for the Template that make_template returned
RenderMade ==
    /\ call_op = "make_template"
    /\ call_out.status = "ok"
    /\ call_op' = "rendered"
    /\ call_out' = Rendered(call_out.val, f(call_out.val))
    /\ UNCHANGED <<call_in, asyncVars, objVars>>

NextFormat == MakeTemplateCall \/ RenderMade

SpecFormat == InitFormat /\ [][NextFormat]_vars

(***************************************************************************)
(* format_some(): one call on one selector and one template whose values   *)
(* are a str, plain functions (one of which raises) and a coroutine        *)
(* function, tagged with the format specs a and b.                         *)
(***************************************************************************)
Selectors == {<<"a">>, <<"b">>}
LazyValues ==
    {StrV(<<"v">>),
     IntV(7),
     FnV(<<"g">>, StrV(<<"r">>), FALSE),
     FnV(<<"n">>, IntV(0), TRUE),
     CoroV(<<"c">>, StrV(<<"r">>), FALSE)}
LazyParts ==
    {Lit(<<"x">>)} \cup
    {Interpolation(v, <<"e">>, c, sel) : v \in LazyValues, c \in {"None", "r"}, sel \in Selectors}

InitLazy ==
    /\ call_op = "none"
    /\ call_in \in {[api |-> "format_some", selector |-> sel, args |-> Template(s)] :
                        sel \in Selectors, s \in SeqsUpTo(LazyParts, MaxParts)}
    /\ call_out = NoCall
    /\ AsyncIdle
    /\ ObjIdle

\* result = format_some(selector, template)
FormatSomeCall ==
    /\ call_op = "none"
    /\ call_in.api = "format_some"
    /\ call_op' = "format_some"
    /\ call_out' = format_some(call_in.selector, call_in.args, <<"*", "*", "*">>)
    /\ UNCHANGED <<call_in, asyncVars, objVars>>

NextLazy == FormatSomeCall

SpecLazy == InitLazy /\ [][NextLazy]_vars

(***************************************************************************)
(* Binder: one Binder made of one template whose interpolation values are  *)
(* the names a and b (one is an int, which the constructor refuses), then  *)
(* bind() calls with keyword arguments that cover both names or one.       *)
(***************************************************************************)
BinderParts ==
    {Lit(<<"x">>), Interpolation(IntV(1), <<"1">>, "None", <<>>)} \cup
    {Interpolation(StrV(n), Repr(StrV(n)), cs[1], cs[2]) :
        n \in {<<"a">>, <<"b">>}, cs \in {<<"None", <<>>>>, <<"r", <<"3">>>>}}

BindKwargs ==
    {[n \in {<<"a">>, <<"b">>} |-> IF n = <<"a">> THEN IntV(1) ELSE StrV(<<"é">>)],
     [n \in {<<"a">>, <<"b">>} |-> IF n = <<"a">> THEN StrV(<<"b">>) ELSE IntV(2)],
     [n \in {<<"a">>} |-> StrV(<<"é">>)]}

InitBinder ==
    /\ call_op = "none"
    /\ call_in \in {[api |-> "Binder", args |-> Template(s)] :
                        s \in SeqsUpTo(BinderParts, MaxParts)}
    /\ call_out = NoCall
    /\ AsyncIdle
    /\ ObjIdle

\* binder = Binder(template)
BinderNew ==
    /\ call_op = "none"
    /\ call_in.api = "Binder"
    /\ call_op' = "Binder"
    /\ call_out' = BinderInit(call_in.args)
    /\ self' = IF BinderInit(call_in.args).status = "ok"
               THEN BinderInit(call_in.args).val ELSE self
    /\ UNCHANGED <<call_in, asyncVars, hist>>

\* bound = binder.bind(**kwargs)
BindCall ==
    /\ self.class = "Binder"
    /\ Len(hist) < MaxCalls
    /\ \E kwargs \in BindKwargs :
          hist' = Append(hist, [kwargs |-> kwargs, out |-> bind(self, kwargs)])
    /\ call_op' = "bind"
    /\ UNCHANGED <<call_in, call_out, asyncVars, self>>

NextBinder == BinderNew \/ BindCall

SpecBinder == InitBinder /\ [][NextBinder]_vars

(***************************************************************************)
(* The values mapping of one template, read from a TemplateMessage or      *)
(* computed by a ValuesFormatter; interpolations share expression texts.   *)
(***************************************************************************)
LogParts ==
    {Lit(<<"x">>)} \cup
    {Interpolation(v, e, cs[1], cs[2]) :
        v \in {IntV(1), StrV(<<"é">>)}, e \in {<<"n">>, <<"m">>},
        cs \in {<<"None", <<>>>>, <<"r", <<"3">>>>}}

InitLogging ==
    /\ call_op = "none"
    /\ call_in \in {[api |-> api, args |-> Template(s)] :
                        api \in {"TemplateMessage", "ValuesFormatter"},
                        s \in SeqsUpTo(LogParts, MaxParts)}
    /\ call_out = NoCall
    /\ AsyncIdle
    /\ ObjIdle

\* message = TemplateMessage(template)
TemplateMessageNew ==
    /\ call_op = "none"
    /\ call_in.api = "TemplateMessage"
    /\ call_op' = "TemplateMessage"
    /\ self' = [class |-> "TemplateMessage", template |-> call_in.args]
    /\ UNCHANGED <<call_in, call_out, asyncVars, hist>>

\* message.values
MessageValues ==
    /\ call_op = "TemplateMessage"
    /\ call_op' = "values"
    /\ call_out' = Returned(values(self.template))
    /\ UNCHANGED <<call_in, asyncVars, objVars>>

\* ValuesFormatter().values(template)
FormatterValues ==
    /\ call_op = "none"
    /\ call_in.api = "ValuesFormatter"
    /\ call_op' = "values"
    /\ call_out' = Returned(values(call_in.args))
    /\ UNCHANGED <<call_in, asyncVars, objVars>>

NextLogging == TemplateMessageNew \/ MessageValues \/ FormatterValues

SpecLogging == InitLogging /\ [][NextLogging]_vars

(***************************************************************************)
(* Specification of html(): the parser is made, the arguments of the       *)
(* template are fed one by one, and the parser is closed and the           *)
(* components are invoked.                                                 *)
(***************************************************************************)
MaxHtmlArgs == 2
MaxValueLen == 3

\* literal parts of the templates
HtmlLiterals ==
    {<<>>,
     <<"x">>,
     <<" ">>,
     <<"<", "p", ">">>,
     <<"<", "/", "p", ">">>,
     <<"<", "b", "r", " ", "/", ">">>,
     <<"<", "b", "r", "/", ">">>,
     <<"<", "p", " ">>,
     <<"<", "p", " ", "a", "=">>,
     <<">">>,
     <<"<">>,
     <<"<", "/">>,
     <<"<", "b", ">", "x", "<", "/", "b", ">">>,
     <<"x", " ", "<", " ", "y">>,
     <<"<", "b", NUL, ">">>}

\* components: functions that wrap their children in an element of their own
Foo == FnV(<<"F", "o", "o">>, StrV(<<"d">>), FALSE)
foo == FnV(<<"f", "o", "o">>, StrV(<<"e">>), FALSE)
Bar == FnV(<<"B", "a", "r">>, StrV(<<"u">>), FALSE)
Components == {Foo, foo, Bar}

\* values of the interpolations
HtmlValues ==
    {StrV(<<"b">>), StrV(<<"\"">>), IntV(1),
     DictV(<<Attr(<<"c">>, Some(<<"d">>)), Attr(<<"e">>, NoneV)>>),
     ElementV(Element(<<"b">>, <<>>, <<Lit(<<"x">>)>>)),
     TemplateV(Template(<<Lit(<<"<", "b", ">", "x", "<", "/", "b", ">">>)>>)), Foo}

ExprOf(value) == IF value.k = "fn" THEN value.name ELSE <<"v">>

Value(value) == Interpolation(value, ExprOf(value), "None", <<>>)

HtmlParts == {Lit(l) : l \in HtmlLiterals} \cup {Value(v) : v \in HtmlValues}

\* the characters of the strings interpolated as content and as attribute values
ValueAlphabet == {"<", ">", "&", "\"", "'", " ", "/", "b"}
LongerValues == {<<"&", "l", "t", ";">>, <<"<", "/", "p", ">">>, <<"<", "b", ">", "x", "<", "/", "b", ">">>, <<"\"", " ", "b", "=", "\"">>}

ValueStrings == SeqsUpTo(ValueAlphabet, MaxValueLen) \cup LongerValues

\* t"<p>{s}</p>"
ContentTemplate(str) == Template(<<Lit(<<"<", "p", ">">>), Value(StrV(str)), Lit(<<"<", "/", "p", ">">>)>>)

\* t"<p a={s}>x</p>"
AttributeTemplate(str) == Template(<<Lit(<<"<", "p", " ", "a", "=">>), Value(StrV(str)), Lit(<<">", "x", "<", "/", "p", ">">>)>>)

\* t'<{F} a="w"><b>x</b></{F}>'
ComponentTemplate(F) ==
    Template(<<Lit(<<"<">>), Value(F), Lit(<<" ", "a", "=", "\"", "w", "\"", ">", "<", "b", ">", "x", "<", "/", "b", ">", "<", "/">>), Value(F), Lit(<<">">>)>>)

\* t"<{F}><{G}>x</{G}></{F}>"
NestedTemplate(F, G) ==
    Template(<<Lit(<<"<">>), Value(F), Lit(<<">", "<">>), Value(G), Lit(<<">", "x", "<", "/">>),
               Value(G), Lit(<<">", "<", "/">>), Value(F), Lit(<<">">>)>>)

\* t"<p><{F} /><{G} /></p>"
SiblingsTemplate(F, G) ==
    Template(<<Lit(<<"<", "p", ">", "<">>), Value(F), Lit(<<" ", "/", ">", "<">>), Value(G), Lit(<<" ", "/", ">", "<", "/", "p", ">">>)>>)

\* t"<p><component-foo-component /><{F} /></p>"
LiteralTemplate(F) == Template(<<Lit(<<"<", "p", ">", "<", "c", "o", "m", "p", "o", "n", "e", "n", "t", "-", "f", "o", "o", "-", "c", "o", "m", "p", "o", "n", "e", "n", "t", " ", "/", ">", "<">>), Value(F), Lit(<<" ", "/", ">", "<", "/", "p", ">">>)>>)

HtmlTemplates ==
    {Template(args) : args \in SeqsUpTo(HtmlParts, MaxHtmlArgs)}
        \cup {ContentTemplate(str) : str \in ValueStrings}
        \cup {AttributeTemplate(str) : str \in ValueStrings}
        \cup {ComponentTemplate(F) : F \in Components}
        \cup {NestedTemplate(F, G) : F \in Components, G \in Components}
        \cup {SiblingsTemplate(F, G) : F \in Components, G \in Components}
        \cup {LiteralTemplate(F) : F \in Components}

InitHtml ==
    /\ call_op = "none"
    /\ call_in \in {[api |-> "html", template |-> template] : template \in HtmlTemplates}
    /\ call_out = NoCall
    /\ AsyncIdle
    /\ ObjIdle

\* html(template): parser = HTMLTemplateParser(); components = {}
HtmlBegin ==
    /\ call_op = "none"
    /\ call_op' = "html"
    /\ self' = [class |-> "html", run |-> NewRun, i |-> 1]
    /\ UNCHANGED <<call_in, call_out, asyncVars, hist>>

\* one turn of the loop over template.args
HtmlFeed ==
    /\ call_op = "html"
    /\ self.class = "html"
    /\ self.run.err = NoErr
    /\ self.i <= Len(call_in.template.args)
    /\ self' = [self EXCEPT !.run = HtmlArg(@, call_in.template.args[self.i]), !.i = @ + 1]
    /\ UNCHANGED <<call_op, call_in, call_out, asyncVars, hist>>

\* the parser after the loop: closed, unless the loop raised
Closed(run) == IF run.err # NoErr THEN run ELSE [run EXCEPT !.parser = close(@)]

\* the end of html(): an exception of the loop, or parser.close() and the components
HtmlReturn ==
    /\ call_op = "html"
    /\ self.class = "html"
    /\ self.run.err # NoErr \/ self.i > Len(call_in.template.args)
    /\ call_out' = HtmlFinish(self.run)
    /\ self' = [self EXCEPT !.class = "returned", !.run = Closed(@)]
    /\ UNCHANGED <<call_op, call_in, asyncVars, hist>>

NextHtml == HtmlBegin \/ HtmlFeed \/ HtmlReturn

SpecHtml == InitHtml /\ [][NextHtml]_vars

(***************************************************************************)
(* Element(tag, attributes, children) and str() of it.  The value of an    *)
(* attribute is a str or None by the annotation; nothing checks it, so a   *)
(* caller can pass True or False as well.                                  *)
(***************************************************************************)
MaxAttrs == 2

\* True and False as the value of an attribute: not a str
BoolV(b) == [some |-> FALSE, v |-> <<>>, bool |-> b]

\* Element.__post_init__
__post_init__(element) ==
    IF element.attributes # <<>> /\ element.tag = <<>>
    THEN Raised("ValueError", <<"Fragments cannot have attributes, only children">>)
    ELSE Returned(element)

AttrKeys == {<<"a">>, <<"i", "d">>}
AttrStrings == {<<>>, <<"v">>, <<"\"">>, <<"<", "&", ">">>, <<"'", " ">>}
AttrValues == {Some(s) : s \in AttrStrings} \cup {NoneV, BoolV(TRUE), BoolV(FALSE)}

\* the dicts of at most MaxAttrs attributes: no key twice
AttrDicts ==
    {d \in SeqsUpTo({Attr(key, value) : key \in AttrKeys, value \in AttrValues}, MaxAttrs) :
        \A m, n \in 1..Len(d) : m # n => d[m].key # d[n].key}

ElementTags == {<<>>, <<"p">>}
ElementChildren == {<<>>, <<Lit(<<"x", "<">>)>>, <<Element(<<"b">>, <<>>, <<>>)>>}

InitElement ==
    /\ call_op = "none"
    /\ call_in \in {[api |-> "Element", tag |-> tag, attributes |-> attributes, children |-> children] :
                       tag \in ElementTags, attributes \in AttrDicts, children \in ElementChildren}
    /\ call_out = NoCall
    /\ AsyncIdle
    /\ ObjIdle

\* Element(tag, attributes, children): the dataclass's __init__, then __post_init__
ElementNew ==
    /\ call_op = "none"
    /\ call_op' = "Element"
    /\ call_out' = __post_init__(Element(call_in.tag, call_in.attributes, call_in.children))
    /\ self' = IF call_out'.status = "ok" THEN call_out'.val ELSE NoObject
    /\ UNCHANGED <<call_in, asyncVars, hist>>

\* str(element)
ElementRender ==
    /\ call_op = "Element"
    /\ self # NoObject
    /\ call_op' = "str"
    /\ call_out' = Returned(ElementStr(self))
    /\ UNCHANGED <<call_in, self, asyncVars, hist>>

NextElement == ElementNew \/ ElementRender

SpecElement == InitElement /\ [][NextElement]_vars

(***************************************************************************)
(* html() of t"<p>{e}</p>" for an Element e.                               *)
(***************************************************************************)
NestedTags == {<<"b">>, <<"B">>, <<>>}

NestedAttrs ==
    {<<>>,
     <<Attr(<<"a">>, Some(<<"v">>))>>,
     <<Attr(<<"a">>, NoneV)>>,
     <<Attr(<<"a">>, Some(<<"\"", "<", "&">>))>>,
     <<Attr(<<"a">>, Some(<<>>)), Attr(<<"c">>, NoneV)>>,
     <<Attr(<<"A">>, Some(<<"v">>))>>}

NestedChildren ==
    {<<>>,
     <<Lit(<<"x">>)>>,
     <<Lit(<<" ", "x">>)>>,
     <<Lit(<<"x">>), Lit(<<"y">>)>>,
     <<Lit(<<>>)>>,
     <<Lit(<<"a", " ", "<", " ", "b">>)>>,
     <<Lit(<<"&", "l", "t", ";">>)>>,
     <<Element(<<"i">>, <<>>, <<>>)>>,
     <<Lit(<<"x">>), Element(<<"i">>, <<Attr(<<"a">>, Some(<<"v">>))>>, <<Lit(<<"y">>)>>), Lit(<<"z">>)>>,
     <<Element(<<"i">>, <<>>, <<Lit(<<" ">>)>>)>>,
     <<Element(<<>>, <<>>, <<Lit(<<"x">>)>>)>>}

\* the Elements that the constructor accepts
NestedElements ==
    {element \in {Element(tag, attributes, children) :
                     tag \in NestedTags, attributes \in NestedAttrs, children \in NestedChildren} :
        __post_init__(element).status = "ok"}

\* t"<p>{e}</p>"
ElementTemplate(element) ==
    Template(<<Lit(<<"<", "p", ">">>), Interpolation(ElementV(element), <<"e">>, "None", <<>>), Lit(<<"<", "/", "p", ">">>)>>)

InitNested ==
    /\ call_op = "none"
    /\ call_in \in {[api |-> "html", template |-> ElementTemplate(element)] : element \in NestedElements}
    /\ call_out = NoCall
    /\ AsyncIdle
    /\ ObjIdle

SpecNested == InitNested /\ [][NextHtml]_vars

(***************************************************************************)
(* Formatter: a formatter is made from a template, format() is called on   *)
(* it, and the same keyword arguments are bound by a Binder and the bound  *)
(* template is rendered by f().                                            *)
(***************************************************************************)
\* the names, with no conversion, with a conversion and a width, and with a
\* format spec that suits an int only
FormatterParts ==
    {Lit(<<"x">>)} \cup
    {Interpolation(StrV(n), Repr(StrV(n)), cs[1], cs[2]) :
        n \in {<<"a">>, <<"b">>}, cs \in {<<"None", <<>>>>, <<"r", <<"3">>>>, <<"None", <<"d">>>>}}

InitFormatter ==
    /\ call_op = "none"
    /\ call_in \in {[api |-> "Formatter", args |-> Template(s), kwargs |-> kwargs] :
                        s \in SeqsUpTo(FormatterParts, MaxParts), kwargs \in BindKwargs}
    /\ call_out = NoCall
    /\ AsyncIdle
    /\ ObjIdle

\* formatter = Formatter(template)
FormatterNew ==
    /\ call_op = "none"
    /\ call_op' = "Formatter"
    /\ self' = FormatterInit(call_in.args).val
    /\ UNCHANGED <<call_in, call_out, asyncVars, hist>>

\* formatted = formatter.format(**kwargs)
FormatCall ==
    /\ call_op = "Formatter"
    /\ call_op' = "format"
    /\ call_out' = format(self, call_in.kwargs)
    /\ UNCHANGED <<call_in, self, asyncVars, hist>>

\* f(bound), or the exception of bind
BoundF(bound) == IF bound.status = "raised" THEN bound ELSE f(bound.val)

\* bound = Binder(template).bind(**kwargs); rendered = f(bound)
BindAndRender ==
    /\ call_op = "format"
    /\ call_op' = "f"
    /\ hist' = <<bind(BinderInit(call_in.args).val, call_in.kwargs),
                 BoundF(bind(BinderInit(call_in.args).val, call_in.kwargs))>>
    /\ UNCHANGED <<call_in, call_out, self, asyncVars>>

NextFormatter == FormatterNew \/ FormatCall \/ BindAndRender

SpecFormatter == InitFormatter /\ [][NextFormatter]_vars

(***************************************************************************)
(* The canonical form of a part sequence.                                  *)
(***************************************************************************)
IsInterp(p) == p.kind = "Interpolation"
InterpsOf(parts) == SelectSeq(parts, IsInterp)

\* odd length, literals at the odd positions, Interpolations at the even ones
IsCanonical(args) ==
    /\ Len(args) % 2 = 1
    /\ \A i \in 1..Len(args) :
          IF i % 2 = 1 THEN args[i].kind = "str" ELSE IsInterp(args[i])

RECURSIVE GapText(_, _)
\* the concatenation of the input literals that lie after the k-th
\* Interpolation of the input and before the next one
GapText(input, k) ==
    IF input = <<>> THEN <<>>
    ELSE IF IsInterp(Head(input))
         THEN IF k = 0 THEN <<>> ELSE GapText(Tail(input), k - 1)
         ELSE (IF k = 0 THEN Head(input).s ELSE <<>>) \o GapText(Tail(input), k)

\* C1: the part sequence stored by the Template constructor has odd length,
\* alternates literal / Interpolation from a literal to a literal, keeps the
\* Interpolations in input order, and each literal is the concatenation of
\* the input literals between the neighbouring Interpolations.
C1_ConstructorRepairs ==
    call_op = "Template" =>
        LET stored == call_out.val.args
            given == call_in.args
        IN  /\ IsCanonical(stored)
            /\ InterpsOf(stored) = InterpsOf(given)
            /\ \A k \in 0..Len(InterpsOf(given)) : stored[2 * k + 1].s = GapText(given, k)

\* C2: t() returns, for every argument list, a Template whose args have odd
\* length and alternate from a string to a string; neither closing assertion
\* of t() fails.
C2_TAlternates ==
    call_op = "t" =>
        /\ call_out.status = "ok"
        /\ IsCanonical(call_out.val.args)

(***************************************************************************)
(* What f() is to return, stated part by part.                             *)
(***************************************************************************)
Converted(value, conv) ==
    CASE conv = "a" -> StrV(Ascii(value))
      [] conv = "r" -> StrV(Repr(value))
      [] conv = "s" -> StrV(Str(value))
      [] OTHER -> value

\* format(convert(value, conv), format_spec) of an Interpolation
Piece(p) == Format(Converted(p.value, p.conv), p.format_spec)

PieceFails(p) == IsInterp(p) /\ Piece(p).status = "raised"

RECURSIVE Concatenated(_)
Concatenated(args) ==
    IF args = <<>> THEN <<>>
    ELSE (IF IsInterp(Head(args)) THEN Piece(Head(args)).val ELSE Head(args).s)
         \o Concatenated(Tail(args))

\* C3: when every interpolation can be formatted, f() returns the literals
\* and format(convert(value, conv), format_spec) of the interpolations,
\* concatenated in template order.
C3_FConcatenates ==
    (call_op = "f" /\ \A i \in 1..Len(call_in.args.args) : ~PieceFails(call_in.args.args[i])) =>
        /\ call_out.status = "ok"
        /\ call_out.val = Concatenated(call_in.args.args)

\* a render of a literal, an ascii-converted str and an unconverted value
\* with a format spec has returned
C3_Witness ==
    /\ call_op = "f"
    /\ call_out.status = "ok"
    /\ \E i, j, k \in 1..Len(call_in.args.args) :
          LET args == call_in.args.args
          IN  /\ args[i].kind = "str"
              /\ IsInterp(args[j]) /\ args[j].conv = "a" /\ args[j].value.k = "str"
              /\ IsInterp(args[k]) /\ args[k].conv = "None"
                 /\ args[k].format_spec # <<>>

\* the index of the first interpolation whose formatting fails
FirstFailing(args) ==
    CHOOSE i \in 1..Len(args) :
        PieceFails(args[i]) /\ \A j \in 1..(i - 1) : ~PieceFails(args[j])

\* C4: when formatting an interpolation fails, f() ends with the error of the
\* direct format operation on the converted value and the format spec,
\* returns no string, and formats no interpolation after the failing one.
C4_FRaisesFormatError ==
    (call_op = "f" /\ \E i \in 1..Len(call_in.args.args) : PieceFails(call_in.args.args[i])) =>
        LET args == call_in.args.args
            bad == FirstFailing(args)
        IN  /\ call_out.status = "raised"
            /\ call_out.err = Piece(args[bad]).err
            /\ call_out.val = <<>>
            /\ call_out.formatted # <<>>
            /\ call_out.formatted[Len(call_out.formatted)] = bad
            /\ \A n \in 1..Len(call_out.formatted) : call_out.formatted[n] <= bad

\* a render has failed at an interpolation that other parts precede and
\* another interpolation follows
C4_Witness ==
    /\ call_op = "f"
    /\ call_out.status = "raised"
    /\ \E i \in 2..Len(call_in.args.args) - 1 :
          /\ i = FirstFailing(call_in.args.args)
          /\ IsInterp(call_in.args.args[i + 1])

(***************************************************************************)
(* What the asynchronous renders are to do, stated on the template.        *)
(***************************************************************************)
IsCallableAt(args, i) == IsInterp(args[i]) /\ args[i].value.k \in {"fn", "coro"}

\* the value an interpolation is rendered from: the result of its callable
ResolvedValue(p) == IF p.value.k \in {"fn", "coro"} THEN p.value.ret ELSE p.value

ResolutionFails(p) == IsInterp(p) /\ p.value.k \in {"fn", "coro"} /\ p.value.raises

ResolvedPart(p) ==
    IF IsInterp(p)
    THEN Interpolation(ResolvedValue(p), p.expr, p.conv, p.format_spec)
    ELSE p

ResolvedArgs(args) == [i \in 1..Len(args) |-> ResolvedPart(args[i])]

\* resolving, converting or formatting the part raises
APieceFails(p) == ResolutionFails(p) \/ PieceFails(ResolvedPart(p))

AExpectedError(p) ==
    IF ResolutionFails(p) THEN [exc |-> "NameError", msg |-> p.value.name]
    ELSE Piece(ResolvedPart(p)).err

AFirstFailing(args) ==
    CHOOSE i \in 1..Len(args) :
        APieceFails(args[i]) /\ \A j \in 1..(i - 1) : ~APieceFails(args[j])

Occurrences(log, e) == Cardinality({p \in 1..Len(log) : log[p] = e})

\* C5: the callable of an interpolation is invoked only after the resolution
\* of every callable interpolation before it has finished, the invocations
\* come in template order, and while the render awaits interpolation i it is
\* at interpolation i and nothing has been invoked after it.
C5_ResolvedInOrder ==
    LET args == call_in.args.args IN
    /\ \A p \in 1..Len(a_log) :
          a_log[p][1] = "call" =>
              /\ \A i \in 1..(a_log[p][2] - 1) :
                    IsCallableAt(args, i) =>
                        \E q \in 1..(p - 1) : a_log[q] = <<"finished", i>>
              /\ \A q \in 1..(p - 1) : a_log[q][2] <= a_log[p][2]
    /\ a_pc = "awaiting" =>
          /\ a_log[Len(a_log)] = <<"call", a_i>>
          /\ Occurrences(a_log, <<"finished", a_i>>) = 0

\* a callable has been invoked after the render was suspended on an earlier
\* coroutine function while another task ran
C5_Witness ==
    /\ ticks >= 1
    /\ \E p, q \in 1..Len(a_log) :
          /\ q < p
          /\ a_log[p][1] = "call"
          /\ a_log[q][1] = "finished"
          /\ call_in.args.args[a_log[q][2]].value.k = "coro"
          /\ a_log[q][2] < a_log[p][2]

\* C6: when resolving, converting or formatting an interpolation raises, the
\* render ends with that error: no callable of a later interpolation is
\* invoked and no string is returned.
C6_FailureAborts ==
    LET args == call_in.args.args IN
    (\E i \in 1..Len(args) : APieceFails(args[i])) =>
        LET bad == AFirstFailing(args) IN
        /\ \A p \in 1..Len(a_log) : a_log[p][2] <= bad
        /\ a_i <= bad
        /\ a_pc # "done"
        /\ a_out.status # "ok"
        /\ a_pc = "raised" =>
              /\ a_i = bad
              /\ a_out.status = "raised"
              /\ a_out.err = AExpectedError(args[bad])
              /\ a_out.val = <<>>

\* a render has ended with the error of an awaited coroutine function, with
\* a callable interpolation after it
C6_Witness ==
    /\ a_pc = "raised"
    /\ a_i < Len(call_in.args.args)
    /\ call_in.args.args[a_i].value.k = "coro"
    /\ a_out.err.exc = "NameError"
    /\ \E j \in (a_i + 1)..Len(call_in.args.args) : IsCallableAt(call_in.args.args, j)

\* C7: a finished render returns what f() returns for the template with
\* every callable value replaced by its result, each callable having been
\* invoked exactly once; it fails as f() fails on that template when no
\* callable raises; without callable values it agrees with f() on the
\* template itself.
C7_AgreesWithF ==
    LET args == call_in.args.args
        viaF == f(Template(ResolvedArgs(args)))
        plain == f(call_in.args)
    IN  /\ a_pc = "done" =>
              /\ viaF.status = "ok"
              /\ a_out.val = viaF.val
              /\ \A i \in 1..Len(args) :
                    IsCallableAt(args, i) => Occurrences(a_log, <<"call", i>>) = 1
        /\ (a_pc = "raised" /\ \A i \in 1..Len(args) : ~ResolutionFails(args[i])) =>
              /\ viaF.status = "raised"
              /\ a_out.err = viaF.err
        /\ (a_pc \in {"done", "raised"} /\ \A i \in 1..Len(args) : ~IsCallableAt(args, i)) =>
              /\ a_out.status = plain.status
              /\ a_out.val = plain.val
              /\ a_out.err = plain.err

\* a render of a plain function, a coroutine function and a converted value
\* has returned
C7_Witness ==
    /\ a_pc = "done"
    /\ \E i, j \in 1..Len(call_in.args.args) :
          LET args == call_in.args.args
          IN  /\ IsInterp(args[i]) /\ args[i].value.k = "fn"
              /\ IsInterp(args[j]) /\ args[j].value.k = "coro" /\ args[j].conv = "r"

(***************************************************************************)
(* The fields of a format string, in order, as the parser finds them.      *)
(***************************************************************************)
RECURSIVE FieldsFrom(_, _)
FieldsFrom(fmt, pos) ==
    IF Search(fmt, pos).ok
    THEN <<Search(fmt, pos)>> \o FieldsFrom(fmt, Search(fmt, pos).last + 1)
    ELSE <<>>

Fields(fmt) == FieldsFrom(fmt, 1)

\* how a field is numbered: automatically, by an explicit index, or not
Numbering(field) ==
    IF field.key = <<>> THEN "auto" ELSE IF isdigit(field.key) THEN "manual" ELSE "key"

\* field j is the first one that switches the numbering mode
FirstSwitchAt(fields, j) ==
    /\ Numbering(fields[j]) \in {"auto", "manual"}
    /\ \E i \in 1..(j - 1) :
          Numbering(fields[i]) \in {"auto", "manual"}
          /\ Numbering(fields[i]) # Numbering(fields[j])
    /\ \A i, h \in 1..(j - 1) :
          (Numbering(fields[i]) # "key" /\ Numbering(fields[h]) # "key")
              => Numbering(fields[i]) = Numbering(fields[h])

\* C8: a format string whose fields switch from automatic numbering to an
\* explicit index, or from an explicit index to automatic numbering, fails
\* with a ValueError whose message names the transition attempted.
C8_NumberingSwitchNamed ==
    call_op = "make_template" =>
        \A j \in 1..Len(Fields(call_in.fmt)) :
            FirstSwitchAt(Fields(call_in.fmt), j) =>
                /\ call_out.status = "raised"
                /\ call_out.err.exc = "ValueError"
                /\ call_out.err.msg =
                      <<IF Numbering(Fields(call_in.fmt)[j]) = "manual"
                        THEN AutoToManual ELSE ManualToAuto>>

\* C9: whenever direct substitution succeeds, make_template returns a
\* Template and f() of it is the string direct substitution yields.
C9_RoundTrip ==
    (call_op \in {"make_template", "rendered"}
     /\ StrFormat(call_in.fmt, call_in.args, call_in.kwargs).status = "ok") =>
        /\ call_out.status = "ok"
        /\ call_op = "rendered" =>
              call_out.val = StrFormat(call_in.fmt, call_in.args, call_in.kwargs).val

HasPlaceholder(field) == field.format_spec.some /\ Contains(field.format_spec.v, "{")

\* the format spec of the first field of fmt with its placeholders resolved
\* against the arguments, the field itself having taken its own argument
ResolvedFirstSpec(fmt, args, kwargs) ==
    SFLoop(Fields(fmt)[1].format_spec.v, 1, <<>>, args, kwargs,
           SFGetField(Fields(fmt)[1].key, args, kwargs, [mode |-> "init", idx |-> 0]).auto,
           1).val

\* C10: for a format string that direct substitution accepts and in which a
\* field's format spec holds a {...} placeholder, make_template returns a
\* Template, no format_spec of which holds a brace, and the format_spec of
\* the first field is its format spec with the placeholders resolved.
C10_NestedSpecResolved ==
    (call_op = "make_template"
     /\ StrFormat(call_in.fmt, call_in.args, call_in.kwargs).status = "ok"
     /\ \E j \in 1..Len(Fields(call_in.fmt)) : HasPlaceholder(Fields(call_in.fmt)[j])) =>
        /\ call_out.status = "ok"
        /\ \A i \in 1..Len(call_out.val.args) :
              IsInterp(call_out.val.args[i]) =>
                  /\ ~Contains(call_out.val.args[i].format_spec, "{")
                  /\ ~Contains(call_out.val.args[i].format_spec, "}")
        /\ HasPlaceholder(Fields(call_in.fmt)[1]) =>
              InterpsOf(call_out.val.args)[1].format_spec =
                  ResolvedFirstSpec(call_in.fmt, call_in.args, call_in.kwargs)

\* C11: a field whose key holds an exclamation mark that no accepted
\* conversion follows (the first field of the format string here) makes
\* make_template fail with the ValueError that names the text after the
\* exclamation mark; and every Interpolation of a Template that make_template
\* returns carries the conversion of its field unchanged.
C11_BadConversionNamed ==
    (call_op = "make_template" /\ Fields(call_in.fmt) # <<>>) =>
        /\ Contains(Fields(call_in.fmt)[1].key, "!") =>
              /\ call_out.status = "raised"
              /\ call_out.err.exc = "ValueError"
              /\ call_out.err.msg =
                    <<"Unknown conversion specifier: ", AfterBang(Fields(call_in.fmt)[1].key)>>
        /\ call_out.status = "ok" =>
              /\ Len(InterpsOf(call_out.val.args)) = Len(Fields(call_in.fmt))
              /\ \A i \in 1..Len(Fields(call_in.fmt)) :
                    InterpsOf(call_out.val.args)[i].conv
                        = conversion_spec_of(Fields(call_in.fmt)[i])

\* the interpolations of items whose format_spec is the selector and whose
\* value is callable, in template order
RECURSIVE SelectedCallables(_, _, _)
SelectedCallables(items, selector, i) ==
    IF i > Len(items) THEN <<>>
    ELSE (IF IsInterp(items[i]) /\ items[i].format_spec = selector
             /\ items[i].value.k \in {"fn", "coro"}
          THEN <<i>> ELSE <<>>) \o SelectedCallables(items, selector, i + 1)

\* calling the value of item i raises
CallRaises(items, i) == items[i].value.k = "fn" /\ items[i].value.raises

\* the selected callables up to the first one whose call raises
RECURSIVE UntilRaise(_, _)
UntilRaise(items, sel) ==
    IF sel = <<>> THEN <<>>
    ELSE IF CallRaises(items, Head(sel)) THEN <<Head(sel)>>
    ELSE <<Head(sel)>> \o UntilRaise(items, Tail(sel))

Covers(kwargs, args) ==
    \A i \in 1..Len(args) : IsInterp(args[i]) => args[i].value.v \in DOMAIN kwargs

\* bound has the literals of args where args has them, and where args has
\* an interpolation named n, one whose value is kwargs[n] and whose
\* conversion and format_spec are those of args
BoundLike(bound, args, kwargs) ==
    /\ Len(bound) = Len(args)
    /\ \A i \in 1..Len(args) :
          IF IsInterp(args[i])
          THEN /\ IsInterp(bound[i])
               /\ bound[i].value = kwargs[args[i].value.v]
               /\ bound[i].conv = args[i].conv
               /\ bound[i].format_spec = args[i].format_spec
          ELSE bound[i] = args[i]

\* every bind() whose keyword arguments name all the interpolations returned
\* a Template like the binder's, whatever the calls before it were
BindsLike ==
    \A n \in 1..Len(hist) :
        Covers(hist[n].kwargs, call_in.args.args) =>
            /\ hist[n].out.status = "ok"
            /\ BoundLike(hist[n].out.val.args, call_in.args.args, hist[n].kwargs)

\* C13 as stated: ..., and the expression of each bound interpolation is the
\* representation of the value bound to it (with or without its quotes).
C13_BindFromValue ==
    /\ self.class = "Binder" => self.template = call_in.args
    /\ BindsLike
    /\ \A n \in 1..Len(hist) :
          hist[n].out.status = "ok" =>
              \A i \in 1..Len(hist[n].out.val.args) :
                  IsInterp(hist[n].out.val.args[i]) =>
                      hist[n].out.val.args[i].expr
                          \in {Repr(hist[n].out.val.args[i].value),
                               StripEnds(Repr(hist[n].out.val.args[i].value))}

\* C13, amended: bind(**kwargs) returns a new Template with the literals and
\* the interpolations of the binder's template in their order, each
\* interpolation with the value kwargs[name], the conversion and the
\* format_spec carried over, and the expression name (the representation of
\* the name, not of the value bound, without its quotes); the binder's
\* template is unchanged and each bind is independent of the calls before.
C13_BindFromName ==
    /\ self.class = "Binder" => self.template = call_in.args
    /\ BindsLike
    /\ \A n \in 1..Len(hist) :
          hist[n].out.status = "ok" =>
              \A i \in 1..Len(hist[n].out.val.args) :
                  IsInterp(hist[n].out.val.args[i]) =>
                      hist[n].out.val.args[i].expr = call_in.args.args[i].value.v

\* two binds with different keyword arguments on a template with an
\* interpolation, both returned
C13_Witness ==
    /\ Len(hist) = 2
    /\ hist[1].kwargs # hist[2].kwargs
    /\ hist[1].out.status = "ok" /\ hist[2].out.status = "ok"
    /\ \E i \in 1..Len(call_in.args.args) : IsInterp(call_in.args.args[i])

\* item i is the last interpolation of items with its expression text
LastWithExpr(items, i) ==
    /\ IsInterp(items[i])
    /\ \A j \in (i + 1)..Len(items) : IsInterp(items[j]) => items[j].expr # items[i].expr

\* C14: the values mapping of a template has exactly the expression texts
\* of its interpolations as keys, and maps each to the raw value of the
\* last interpolation with that expression text.
C14_ValuesLastWins ==
    call_op = "values" =>
        /\ DOMAIN call_out.val =
              {call_in.args.args[i].expr :
                  i \in {j \in 1..Len(call_in.args.args) : IsInterp(call_in.args.args[j])}}
        /\ \A i \in 1..Len(call_in.args.args) :
              LastWithExpr(call_in.args.args, i) =>
                  call_out.val[call_in.args.args[i].expr] = call_in.args.args[i].value

\* the mapping of a template in which two interpolations with different
\* values share an expression text, the later one with a conversion
C14_Witness ==
    /\ call_op = "values"
    /\ \E i, j \in 1..Len(call_in.args.args) :
          /\ i < j
          /\ IsInterp(call_in.args.args[i]) /\ IsInterp(call_in.args.args[j])
          /\ call_in.args.args[i].expr = call_in.args.args[j].expr
          /\ call_in.args.args[i].value # call_in.args.args[j].value
          /\ call_in.args.args[j].conv = "r"

(***************************************************************************)
(* html(): states in which the call has returned or raised                 *)
(***************************************************************************)
HtmlDone == call_op = "html" /\ self.class = "returned"

HtmlRaised(exc) == call_out.status = "raised" /\ call_out.err.exc = exc

\* a template of literal text only: no interpolation and no "<"
TextOnly(template) ==
    \A n \in 1..Len(template.args) :
        isinstance_str(template.args[n]) /\ Find(template.args[n].s, "<", 1) = 0

\* t"<br />"
BrTemplate == Template(<<Lit(<<"<", "b", "r", " ", "/", ">">>)>>)

\* C15: html() of the empty template and of a template of text only fails with
\* HTMLParseError and returns no Element; html() of '<br />' returns the
\* Element with tag 'br', no attributes and no children.
C15_FatalCases ==
    HtmlDone =>
        /\ TextOnly(call_in.template) => HtmlRaised("HTMLParseError")
        /\ call_in.template = BrTemplate =>
               call_out = Invoking(Returned(Element(<<"b", "r">>, <<>>, <<>>)), <<>>)

\* a template of text that is not blank has failed with HTMLParseError
C15_Witness ==
    /\ HtmlDone
    /\ TextOnly(call_in.template)
    /\ \E n \in 1..Len(call_in.template.args) : strip(call_in.template.args[n].s) # <<>>
    /\ HtmlRaised("HTMLParseError")

\* the template is t"<p>{s}</p>" for a string s
IsContentTemplate ==
    /\ Len(call_in.template.args) = 3
    /\ call_in.template.args[1] = Lit(<<"<", "p", ">">>)
    /\ call_in.template.args[2].kind = "Interpolation"
    /\ call_in.template.args[2].value.k = "str"
    /\ call_in.template.args[3] = Lit(<<"<", "/", "p", ">">>)

\* the text of the children of an element that has text children only
TextContent(element) == Join([n \in 1..Len(element.children) |-> element.children[n].s])

\* C16: a string s interpolated in content position never introduces markup: the
\* element built for '<p>{s}</p>' has no Element child and its text content is s
\* with leading and trailing whitespace removed.
C16_ContentIsText ==
    HtmlDone /\ IsContentTemplate =>
        /\ call_out.status = "ok"
        /\ call_out.val.tag = <<"p">>
        /\ \A n \in 1..Len(call_out.val.children) : call_out.val.children[n].kind = "str"
        /\ TextContent(call_out.val) = strip(call_in.template.args[2].value.v)

\* '<p>{s}</p>' was built for an s that holds a complete tag
C16_Witness ==
    /\ HtmlDone
    /\ IsContentTemplate
    /\ call_in.template.args[2].value.v = <<"<", "b", ">">>
    /\ call_out.status = "ok"
    /\ call_out.val.children = <<Lit(<<"<", "b", ">">>)>>

\* the template is t"<p a={s}>x</p>" for a string s
IsAttributeTemplate ==
    /\ Len(call_in.template.args) = 3
    /\ call_in.template.args[1] = Lit(<<"<", "p", " ", "a", "=">>)
    /\ call_in.template.args[2].kind = "Interpolation"
    /\ call_in.template.args[2].value.k = "str"
    /\ call_in.template.args[3] = Lit(<<">", "x", "<", "/", "p", ">">>)

\* C17: a string s interpolated as the value of an attribute (a={s}) yields
\* exactly one attribute, named a, whose value is s: the value neither adds
\* attributes nor terminates the start tag.
C17_AttributeIsValue ==
    HtmlDone /\ IsAttributeTemplate =>
        call_out = Invoking(Returned(Element(<<"p">>,
                                             <<Attr(<<"a">>, Some(call_in.template.args[2].value.v))>>,
                                             <<Lit(<<"x">>)>>)), <<>>)

\* '<p a={s}>x</p>' was built for the s that reads: " b="
C17_Witness ==
    /\ HtmlDone
    /\ IsAttributeTemplate
    /\ call_in.template.args[2].value.v = <<"\"", " ", "b", "=", "\"">>
    /\ call_out.status = "ok"
    /\ Len(call_out.val.attributes) = 1

\* an interpolation whose value html() does not support where it stands
Unsupported(in_start_tag, arg) ==
    /\ arg.kind = "Interpolation"
    /\ IF in_start_tag THEN arg.value.k \notin {"dict", "str"}
       ELSE arg.value.k \notin {"Element", "Template", "str", "fn"}

\* the error of an unsupported value
UnsupportedError(in_start_tag, value) ==
    [exc |-> "HTMLParseError",
     msg |-> (IF in_start_tag THEN <<"Unsupported start tag interpolation: ">>
              ELSE <<"Unsupported content interpolation: ">>) \o TypeRepr(value)]

\* a turn of the loop of html() on an unsupported value
UnsupportedTurn ==
    /\ call_op = "html"
    /\ self.class = "html"
    /\ self'.class = "html"
    /\ self'.i = self.i + 1
    /\ Unsupported(self.run.parser.in_start_tag, call_in.template.args[self.i])

\* C18: an interpolation value that is neither a mapping nor a string inside a
\* start tag, or none of Element, Template, string or callable in content
\* position, makes html() fail with HTMLParseError naming the type of the value;
\* nothing is fed to the parser for it and no Element is returned.
C18_UnsupportedValueFails ==
    /\ [][UnsupportedTurn =>
             /\ self'.run.err = UnsupportedError(self.run.parser.in_start_tag,
                                                 call_in.template.args[self.i].value)
             /\ self'.run.fed = self.run.fed
             /\ self'.run.parser = self.run.parser]_vars
    /\ [](HtmlDone /\ self.run.err # NoErr =>
              call_out = Invoking([status |-> "raised", val |-> <<>>, err |-> self.run.err], <<>>))

\* html() of t"<p>{attributes}</p>", a mapping in content position, has failed
C18_Witness ==
    /\ HtmlDone
    /\ Len(call_in.template.args) = 2
    /\ call_in.template.args[1] = Lit(<<"<", "p", ">">>)
    /\ call_in.template.args[2].kind = "Interpolation"
    /\ call_in.template.args[2].value.k = "dict"
    /\ call_out.err = UnsupportedError(FALSE, call_in.template.args[2].value)
    /\ self.run.fed = << <<"<", "p", ">">> >>

RECURSIVE Resolve(_, _)
\* a child of an element with the components in it replaced by their results
ResolveChild(child, components) ==
    IF child.kind = "Element" THEN Resolve(child, components) ELSE child

ResolvedChildren(element, components) ==
    [n \in 1..Len(element.children) |-> ResolveChild(element.children[n], components)]

\* the tree in which every element with a registered tag is replaced by the result of
\* its component on the element's attributes and resolved children
Resolve(element, components) ==
    IF HasItem(components, element.tag)
    THEN ComponentCall(ItemGet(components, element.tag), element.attributes,
                       ResolvedChildren(element, components)).val
    ELSE Element(element.tag, element.attributes, ResolvedChildren(element, components))

RECURSIVE PostOrder(_)
\* the elements of a tree, every element after the elements inside it
PostOrder(element) ==
    Join([n \in 1..Len(element.children) |->
             IF element.children[n].kind = "Element" THEN PostOrder(element.children[n])
             ELSE <<>>]) \o <<element>>

IsPlaceholder(element) == HasItem(self.run.components, element.tag)

\* the elements of the parsed tree whose tag is a registered placeholder name
Placeholders == SelectSeq(PostOrder(self.run.parser.root.v), IsPlaceholder)

\* C19: after parsing, every element whose tag is a registered placeholder name is
\* replaced by the result of calling the registered callable exactly once with the
\* element's attributes and its children, the components among the children being
\* resolved before (inner before outer); other elements keep tag and attributes.
C19_ComponentsBottomUp ==
    HtmlDone /\ call_out.status = "ok" =>
        /\ call_out.val = Resolve(self.run.parser.root.v, self.run.components)
        /\ Len(call_out.invoked) = Len(Placeholders)
        /\ \A n \in 1..Len(Placeholders) :
               call_out.invoked[n] =
                   Invocation(ItemGet(self.run.components, Placeholders[n].tag),
                              Placeholders[n].attributes,
                              ResolvedChildren(Placeholders[n], self.run.components))

\* t"<{Foo}><{Bar}>x</{Bar}></{Foo}>": Bar was called first, and Foo on the result of Bar
C19_Witness ==
    /\ HtmlDone
    /\ call_in.template = NestedTemplate(Foo, Bar)
    /\ call_out.status = "ok"
    /\ Len(call_out.invoked) = 2
    /\ call_out.invoked[1].component = Bar.name
    /\ call_out.invoked[2].component = Foo.name
    /\ call_out.invoked[2].children = <<call_out.val.children[1]>>
    /\ call_out.val.children[1].tag = Bar.ret.v

\* argument n of the template interpolates a callable
IsComponentArg(n) ==
    /\ call_in.template.args[n].kind = "Interpolation"
    /\ callable(call_in.template.args[n].value)

ComponentArgs == {n \in 1..Len(call_in.template.args) : IsComponentArg(n)}

\* C20: each callable interpolated in a template gets a placeholder tag name that
\* is unique within the html() call: two different callables are registered under
\* different names, each placeholder is replaced by invoking its own callable, and
\* no element written literally in the template is taken for a placeholder.
C20_UniquePlaceholders ==
    HtmlDone /\ call_out.status = "ok" =>
        /\ \A n, k \in ComponentArgs :
               call_in.template.args[n].value # call_in.template.args[k].value =>
                   _make_component_name(call_in.template.args[n].expr)
                       # _make_component_name(call_in.template.args[k].expr)
        /\ \A n \in ComponentArgs :
               ItemGet(self.run.components, _make_component_name(call_in.template.args[n].expr))
                   = call_in.template.args[n].value
        /\ Len(call_out.invoked) <= Cardinality(ComponentArgs)

(***************************************************************************)
(* C21: str() of an Element renders an attribute with a string value as    *)
(* key="value" with the value escaped, an attribute whose value is True    *)
(* (or None, the presence flag of the annotation) as the bare key, and     *)
(* leaves an attribute whose value is False out of the output.             *)
(***************************************************************************)
IsFalse(value) == ~value.some /\ "bool" \in DOMAIN value /\ ~value.bool

\* the attributes that the claim has in the output
Present(attributes) == SelectSeq(attributes, LAMBDA item : ~IsFalse(item.value))

\* the text that the claim has for one attribute that is in the output
AttributeText(item) ==
    IF item.value.some
    THEN item.key \o <<"=", "\"">> \o escape(item.value.v, TRUE) \o <<"\"">>
    ELSE item.key

RECURSIVE AttributesText(_)
AttributesText(attributes) ==
    IF attributes = <<>> THEN <<>>
    ELSE IF Len(attributes) = 1 THEN AttributeText(attributes[1])
    ELSE AttributeText(attributes[1]) \o <<" ">> \o AttributesText(Tail(attributes))

C21_FalseAttributeOmitted ==
    (call_op = "str" /\ call_in.tag # <<>>) =>
        call_out.val = TagStr(self, AttributesText(Present(self.attributes)))

(***************************************************************************)
(* C22: an Element e interpolated in content position is nested unchanged: *)
(* html() of t"<p>{e}</p>" is Element('p', {}, [e]); the text of e is not  *)
(* escaped a second time, its tags, attributes and children are those of e.*)
(* This holds for the elements that their own text reads back as: tags and *)
(* attribute names in lower case, no fragment, and text children that are  *)
(* not empty, have no white space at their ends and are not adjacent.      *)
(***************************************************************************)
RECURSIVE ReadsBack(_)
\* the element is what the parser builds from str() of the element
ReadsBack(element) ==
    /\ element.tag # <<>>
    /\ lower(element.tag) = element.tag
    /\ \A n \in 1..Len(element.attributes) :
          lower(element.attributes[n].key) = element.attributes[n].key
    /\ \A n \in 1..Len(element.children) :
          IF element.children[n].kind = "Element"
          THEN ReadsBack(element.children[n])
          ELSE /\ element.children[n].s # <<>>
               /\ strip(element.children[n].s) = element.children[n].s
               /\ n > 1 => element.children[n - 1].kind = "Element"

\* the Element of the template t"<p>{e}</p>"
NestedElement == call_in.template.args[2].value.element

NestedUnchanged ==
    call_out = Invoking(Returned(Element(<<"p">>, <<>>, <<NestedElement>>)), <<>>)

I3 == Interpolation(IntV(42), <<"i", "3">>, "None", <<>>)

\* the args of the templates that a template literal gives
OperandArgs == {args \in SeqsUpTo({Lit(<<>>), Lit(<<"a">>), I1, I2, I3}, MaxParts) : IsCanonical(args)}

StrOperand(str) == [type |-> "str", s |-> str]
TemplateOperand(args) == [type |-> "Template", args |-> args]
SameOperand == [type |-> "same"]

Operands == {StrOperand(<<>>), StrOperand(<<"a">>)} \cup {TemplateOperand(args) : args \in OperandArgs}

\* the object that an operand evaluates to; a Template object has an identity
Object(operand, id) ==
    IF operand.type = "str" THEN operand
    ELSE [type |-> "Template", id |-> id, template |-> Template(operand.args)]

\* left + right
Add(left, right) ==
    IF left.type = "str"
    THEN Raised("TypeError", <<"can only concatenate str (not \"Template\") to str">>)
    ELSE Raised("TypeError", <<"unsupported operand type(s) for +: 'Template' and '", right.type, "'">>)

\* left == right: object.__eq__ on both sides, then the identity
Eq(left, right) == Returned(left.type = "Template" /\ right.type = "Template" /\ left.id = right.id)

InitOperators ==
    /\ call_op = "none"
    /\ call_in \in {[api |-> api, left |-> left, right |-> right] :
                       api \in {"add", "eq"}, left \in Operands, right \in Operands \cup {SameOperand}}
    /\ call_in.left.type = "str" => call_in.right.type = "Template"
    /\ call_out = NoCall
    /\ AsyncIdle
    /\ ObjIdle

\* the two operands are evaluated; "same" is the left object once more
OperandsNew ==
    /\ call_op = "none"
    /\ call_op' = "operands"
    /\ self' = [class |-> "operands",
                left |-> Object(call_in.left, 1),
                right |-> IF call_in.right = SameOperand THEN Object(call_in.left, 1)
                          ELSE Object(call_in.right, 2)]
    /\ UNCHANGED <<call_in, call_out, asyncVars, hist>>

\* result = left + right
AddCall ==
    /\ call_op = "operands"
    /\ call_in.api = "add"
    /\ call_op' = "add"
    /\ call_out' = Add(self.left, self.right)
    /\ UNCHANGED <<call_in, self, asyncVars, hist>>

\* result = (left == right)
EqCall ==
    /\ call_op = "operands"
    /\ call_in.api = "eq"
    /\ call_op' = "eq"
    /\ call_out' = Eq(self.left, self.right)
    /\ UNCHANGED <<call_in, self, asyncVars, hist>>

NextOperators == OperandsNew \/ AddCall \/ EqCall

SpecOperators == InitOperators /\ [][NextOperators]_vars

(***************************************************************************)
(* C23: the concatenation of a Template with a str (on either side) or     *)
(* with a Template is a new Template: the parts of the left operand, then  *)
(* the parts of the right one, with the two literals at the boundary       *)
(* merged into one; the operands are unchanged.                            *)
(***************************************************************************)
\* the args of an operand, a str being the one literal
ArgsOf(object) == IF object.type = "str" THEN <<Lit(object.s)>> ELSE object.template.args

\* the parts of left, then those of right, the boundary literals merged
BoundaryMerged(left, right) ==
    SubSeq(left, 1, Len(left) - 1)
        \o <<Lit(left[Len(left)].s \o right[1].s)>>
        \o SubSeq(right, 2, Len(right))

C23_ConcatenationMerges ==
    call_op = "add" =>
        /\ call_out.status = "ok"
        /\ call_out.val = Template(BoundaryMerged(ArgsOf(self.left), ArgsOf(self.right)))

(***************************************************************************)
(* C24: two Templates are equal exactly when their part sequences have the *)
(* same literals and the corresponding Interpolations agree on value,      *)
(* expression, conversion and format_spec: templates built separately from *)
(* identical parts are equal, templates that differ in an expression only  *)
(* are not.                                                                *)
(***************************************************************************)
C24_EqualityByParts ==
    (call_op = "eq" /\ self.left.type = "Template" /\ self.right.type = "Template") =>
        call_out.val = (self.left.template.args = self.right.template.args)

(***************************************************************************)
(* C25: while html() processes a template, an interpolation is handled as  *)
(* a start-tag interpolation exactly when the text fed to the parser so    *)
(* far ends inside a start tag that is not yet terminated, and as a        *)
(* content interpolation everywhere else; in_start_tag is false in the     *)
(* initial state and false again after every completed start tag.          *)
(* Where a text ends is found by a scan of the text that knows nothing of  *)
(* the parser: "<" and a letter open a start tag, whose name runs to white *)
(* space, "/" or ">"; after the name, ">" ends the tag unless it lies in a *)
(* quoted attribute value; "</" runs to the next ">".                      *)
(***************************************************************************)
\* the first position at or after j whose character is not in S
Past(text, j, S) ==
    CHOOSE k \in j..(Len(text) + 1) :
        /\ k > Len(text) \/ text[k] \notin S
        /\ \A n \in j..(k - 1) : text[n] \in S

\* the first position at or after j whose character is in S
UpToAny(text, j, S) ==
    CHOOSE k \in j..(Len(text) + 1) :
        /\ k > Len(text) \/ text[k] \in S
        /\ \A n \in j..(k - 1) : text[n] \notin S

RECURSIVE Scan(_, _, _, _)
\* the scan in content, at a "<"
ScanOpen(text, i) ==
    CASE i < Len(text) /\ text[i + 1] = "/" ->
             IF Find(text, ">", i + 2) = 0 THEN FALSE
             ELSE Scan(text, Find(text, ">", i + 2) + 1, "content", FALSE)
      [] i < Len(text) /\ text[i + 1] \in Letters -> Scan(text, i + 2, "name", FALSE)
      [] OTHER -> Scan(text, i + 1, "content", FALSE)

\* the scan in a start tag, at the value of an attribute that begins at j
ScanValue(text, j) ==
    CASE j <= Len(text) /\ text[j] \in Quotes /\ Find(text, text[j], j + 1) = 0 -> TRUE
      [] j <= Len(text) /\ text[j] \in Quotes /\ Find(text, text[j], j + 1) # 0 ->
             Scan(text, Find(text, text[j], j + 1) + 1, "attrs", FALSE)
      [] OTHER -> Scan(text, UpToAny(text, j, Space \cup {">"}), "attrs", FALSE)

\* the scan from position i on; named: an attribute name stands before i
Scan(text, i, st, named) ==
    CASE i > Len(text) -> st # "content"
      [] i <= Len(text) /\ st = "content" /\ text[i] = "<" -> ScanOpen(text, i)
      [] i <= Len(text) /\ st = "content" /\ text[i] # "<" -> Scan(text, i + 1, "content", FALSE)
      [] i <= Len(text) /\ st # "content" /\ text[i] = ">" -> Scan(text, i + 1, "content", FALSE)
      [] i <= Len(text) /\ st = "name" /\ text[i] # ">" ->
             Scan(text, i + 1, IF text[i] \in Space \cup {"/"} THEN "attrs" ELSE "name", FALSE)
      [] i <= Len(text) /\ st = "attrs" /\ text[i] = "=" /\ named ->
             ScanValue(text, Past(text, Past(text, i + 1, {"="}), Space))
      [] OTHER ->
             Scan(text, i + 1, "attrs",
                  IF text[i] = "/" THEN FALSE ELSE IF text[i] \in Space THEN named ELSE TRUE)

\* the text ends inside a start tag that is not terminated
InsideStartTag(text) == Scan(text, 1, "content", FALSE)

\* html() is in its loop and nothing has failed
HtmlFeeding == call_op = "html" /\ self.class = "html" /\ self.run.err = NoErr

\* a turn of the loop of html() on an Interpolation
InterpolationTurn ==
    /\ HtmlFeeding
    /\ self'.class = "html"
    /\ self'.i = self.i + 1
    /\ call_in.template.args[self.i].kind = "Interpolation"

C25_StartTagTracked ==
    /\ [](HtmlFeeding => self.run.parser.in_start_tag = InsideStartTag(Join(self.run.fed)))
    /\ [](HtmlFeeding /\ self.i = 1 => ~self.run.parser.in_start_tag)
    /\ [][InterpolationTurn =>
             self'.run = IF InsideStartTag(Join(self.run.fed))
                         THEN FeedProcessed(self.run, _process_start_tag_interpolation(
                                                          call_in.template.args[self.i].value))
                         ELSE ContentArg(self.run, call_in.template.args[self.i])]_vars

(***************************************************************************)
(* C26: for every template whose interpolation values are strings and for  *)
(* every keyword arguments kw, Formatter(template).format of kw returns    *)
(* the string that f of Binder(template).bind of kw returns, and fails     *)
(* as it fails.  When a name of the template is missing from kwargs, bind  *)
(* fails with KeyError; format fails with the same KeyError unless the     *)
(* formatting of an interpolation before the missing name fails first.     *)
(***************************************************************************)
\* both calls have been made
FormatterDone == call_op = "f"

\* what a call came to: the value returned or the exception raised
Outcome(r) == [status |-> r.status, val |-> r.val, err |-> r.err]

C26_FormatterAgrees ==
    FormatterDone =>
        IF hist[1].status = "ok" THEN Outcome(call_out) = Outcome(hist[2])
        ELSE /\ hist[1].err.exc = "KeyError"
             /\ call_out.status = "raised"
             /\ call_out.err = hist[1].err \/ call_out.err.exc \in {"ValueError", "TypeError"}

\* a template with a conversion and a width was rendered to the same text twice
C26_Witness ==
    /\ FormatterDone
    /\ \E n \in 1..Len(call_in.args.args) :
          ~isinstance_str(call_in.args.args[n]) /\ call_in.args.args[n].conv = "r"
    /\ call_out.status = "ok"
    /\ hist[2].status = "ok"
    /\ hist[2].val = call_out.val
    /\ Len(call_out.val) >= 5

\* the claim as it stands: the two fail with a KeyError on the same inputs
C26_SameKeyErrors ==
    FormatterDone =>
        (call_out.status = "raised" /\ call_out.err.exc = "KeyError")
            <=> (hist[2].status = "raised" /\ hist[2].err.exc = "KeyError")

(***************************************************************************)
(* C27: make_template supports literal format specs only: for every format *)
(* string in which the format spec of a field holds a nested {...}         *)
(* placeholder it raises NotImplementedError and returns no Template.      *)
(***************************************************************************)
C27_NestedSpecRefused ==
    (call_op = "make_template"
     /\ \E j \in 1..Len(Fields(call_in.fmt)) : HasPlaceholder(Fields(call_in.fmt)[j])) =>
        /\ call_out.status = "raised"
        /\ call_out.err.exc = "NotImplementedError"

(***************************************************************************)
(* C28: in every state reached while html() feeds a template, the root is  *)
(* set only when the stack of open elements is empty, it is set at most    *)
(* once, and after it is set no further element is opened: a later start   *)
(* tag fails with HTMLParseError.  html() returns a tree only if every     *)
(* element that was opened has been closed, and a template that leaves an  *)
(* element open fails with HTMLParseError.                                 *)
(***************************************************************************)
\* html() has a parser: it is in its loop or it is over
HtmlRunning == call_op = "html" /\ self.class \in {"html", "returned"}

C29_OnlyHTMLParseError ==
    HtmlDone /\ call_out.status = "raised" => call_out.err.exc = "HTMLParseError"

(***************************************************************************)
(* C30: format_some returns a string for every selector and template whose *)
(* callables do not fail, whatever the type of the selected values: a      *)
(* selected interpolation with no conversion whose resolved value is not a *)
(* string contributes the text of that value.                              *)
(***************************************************************************)
\* no callable of the template raises when it is called
NoneFails(args) ==
    \A i \in 1..Len(args) : (IsInterp(args[i]) /\ callable(args[i].value)) => ~args[i].value.raises

C30_AlwaysAString ==
    (call_op = "format_some" /\ NoneFails(call_in.args.args)) => call_out.status = "ok"

====
